---- MODULE Spec2Model ----
(***************************************************************************)
(* Model of the workflow dependency installer                              *)
(* (workflow_dependency_installer.py): workflow analysis, custom-node      *)
(* repository installation, weight download and the progress file, with    *)
(* the process being killed and re-run.                                    *)
(***************************************************************************)
EXTENDS Integers, Sequences, FiniteSets, TLC

(***************************************************************************)
(* Python string primitives, on TLA+ strings.                              *)
(***************************************************************************)

\* str.startswith
StartsWith(s, p) == Len(s) >= Len(p) /\ SubSeq(s, 1, Len(p)) = p

\* str.endswith
EndsWith(s, p) == Len(s) >= Len(p) /\ SubSeq(s, Len(s) - Len(p) + 1, Len(s)) = p

\* the `in` operator on strings (the empty string is in every string)
Contains(s, t) ==
    \E i \in 1..(Len(s) - Len(t) + 1) : SubSeq(s, i, i + Len(t) - 1) = t

UpperChars == "ABCDEFGHIJKLMNOPQRSTUVWXYZ"

LowerChars == "abcdefghijklmnopqrstuvwxyz"

LowerChar(c) ==
    IF \E i \in 1..Len(UpperChars) : SubSeq(UpperChars, i, i) = c
    THEN LET i == CHOOSE j \in 1..Len(UpperChars) : SubSeq(UpperChars, j, j) = c
         IN  SubSeq(LowerChars, i, i)
    ELSE c

\* str.lower
RECURSIVE Lower(_)
Lower(s) ==
    IF s = "" THEN ""
    ELSE LowerChar(SubSeq(s, 1, 1)) \o Lower(SubSeq(s, 2, Len(s)))

\* truthiness of value.strip(): some character is not whitespace
StripNonEmpty(s) == \E i \in 1..Len(s) : SubSeq(s, i, i) # " "

\* str.rstrip('/')
RECURSIVE RStripSlash(_)
RStripSlash(s) ==
    IF s # "" /\ EndsWith(s, "/") THEN RStripSlash(SubSeq(s, 1, Len(s) - 1)) ELSE s

\* The printable characters in code-point order (quote, backslash and backtick left out).
CodePoints ==
    " !#$%&'()*+,-./0123456789:;<=>?@ABCDEFGHIJKLMNOPQRSTUVWXYZ[]^_abcdefghijklmnopqrstuvwxyz{|}~"

Ord(c) == CHOOSE i \in 1..Len(CodePoints) : SubSeq(CodePoints, i, i) = c

\* Python's < on strings: lexicographic by code point, a proper prefix first
RECURSIVE StrLess(_, _)
StrLess(a, b) ==
    IF b = "" THEN FALSE
    ELSE IF a = "" THEN TRUE
    ELSE LET ca == SubSeq(a, 1, 1)
             cb == SubSeq(b, 1, 1)
         IN  IF ca # cb THEN Ord(ca) < Ord(cb)
             ELSE StrLess(SubSeq(a, 2, Len(a)), SubSeq(b, 2, Len(b)))

\* sorted(S) for a set of strings
RECURSIVE Sorted(_)
Sorted(S) ==
    IF S = {} THEN <<>>
    ELSE LET m == CHOOSE x \in S : \A y \in S \ {x} : StrLess(x, y)
         IN  <<m>> \o Sorted(S \ {m})

DigitChars == "0123456789"

\* the f-string rendering of a non-negative int
RECURSIVE IntStr(_)
IntStr(i) ==
    IF i < 10 THEN SubSeq(DigitChars, i + 1, i + 1)
    ELSE IntStr(i \div 10) \o SubSeq(DigitChars, (i % 10) + 1, (i % 10) + 1)

(***************************************************************************)
(* Decoded JSON values: every value carries its Python type.               *)
(***************************************************************************)
Str(x) == [t |-> "str", v |-> x]

Num(n) == [t |-> "num", v |-> n]

Null == [t |-> "null", v |-> 0]

\* a dict: a function from key strings to JSON values
Dict(f) == [t |-> "dict", v |-> f]

\* a list: a sequence of JSON values
List(s) == [t |-> "list", v |-> s]

EmptyDict == Dict(<<>>)

IsDict(x) == x.t = "dict"

IsStr(x) == x.t = "str"

HasKey(d, k) == k \in DOMAIN d.v

\* Python truthiness of a decoded JSON value
Truthy(x) ==
    CASE x.t = "str" -> x.v # ""
      [] x.t = "num" -> x.v # 0
      [] x.t = "null" -> FALSE
      [] x.t = "dict" -> DOMAIN x.v # {}
      [] x.t = "list" -> Len(x.v) > 0

\* the (key, value) items of a dict
Items(d) == { <<k, d.v[k]>> : k \in DOMAIN d.v }

(***************************************************************************)
(* The workflow analyzer of the installer.                                 *)
(***************************************************************************)
BASE_COMFY_NODES ==
    { "Reroute", "Note", "MarkdownNote", "Primitive", "CheckpointLoaderSimple",
      "CLIPTextEncode", "CLIPTextEncodeSD3", "ConditioningCombine", "ConditioningSetArea",
      "ConditioningSetAreaPercentage", "ConditioningSetMask", "ControlNetLoader",
      "DualCLIPLoader", "EmptyEvaluateLatents", "EvaluateLatents", "FrequencyDetailTransfer",
      "ImageScale", "ImageScaleBy", "ImageUpscaleWithModel", "KSamplerAdvanced",
      "KSampler", "KSamplerSelect", "LatentBatch", "LatentComposite", "LatentCrop",
      "LatentFlip", "LatentInterpolate", "LatentRotate", "LatentUpscale", "LatentUpscaleBy",
      "LoraLoader", "ModelMergeBlocks", "ModelMergeLatentKeyframes", "ModelMergePatch",
      "ModelMergeSub", "ModelMergeSubStrength", "ModelMergeSubforc", "ModelMergeTogetherStrength",
      "ModelSamplingContinuousEps", "ModelSamplingContinuousV", "ModelSamplingDefault",
      "ModelSamplingDiscreteEps", "ModelSamplingDiscreteV", "ModelSamplingSD3", "SaveImage",
      "VAEDecode", "VAEDecodeTiled", "VAEEncode", "VAEEncodeTiled", "VAELoader",
      "CheckpointLoader", "DualCLIPTextEncode", "UNETLoader", "CLIPLoader",
      "CLIPSetLastLayer", "StyleModelLoader", "STYLEModelLoader", "FreeU",
      "BBoxDetectorCombined", "BBoxDetectorCombinedPreview", "PK_HookedinpaintNoise",
      "GetNode", "Switch", "PrimitiveNode", "StringInput", "IntInput", "FloatInput",
      "BooleanInput", "BooleanToNumber", "BooleanToString" }

\* Class names of a workflow: the API form (top-level dict values holding
\* class_type) first, the UI form (a nodes list with type) when that found none.
ApiClassTypes(workflow) ==
    { workflow.v[id].v["class_type"].v :
        id \in { i \in DOMAIN workflow.v :
                   IsDict(workflow.v[i]) /\ HasKey(workflow.v[i], "class_type") } }

UiNodeList(workflow) ==
    IF HasKey(workflow, "nodes") /\ workflow.v["nodes"].t = "list"
    THEN workflow.v["nodes"].v
    ELSE <<>>

UiTypes(workflow) ==
    LET ns == UiNodeList(workflow)
    IN  { ns[i].v["type"].v :
            i \in { j \in DOMAIN ns : IsDict(ns[j]) /\ HasKey(ns[j], "type") } }

extract_nodes_from_workflow(workflow) ==
    IF ~IsDict(workflow) THEN {}
    ELSE IF ApiClassTypes(workflow) # {} THEN ApiClassTypes(workflow)
    ELSE UiTypes(workflow)

model_input_keys ==
    { "ckpt_name", "vae_name", "lora_name", "model_name",
      "clip_name", "embedding_name", "upscale_model_name",
      "diffusers_name", "embeddings", "taesd_name", "conditioning_method",
      "preview_method", "model", "filename" }

non_model_extensions ==
    { ".mp4", ".mov", ".avi", ".mkv", ".webm",
      ".jpg", ".jpeg", ".png", ".webp", ".gif",
      ".wav", ".mp3", ".flac", ".m4a",
      ".txt", ".json", ".csv" }

PlaceholderNames == { "image", "video", "audio", "input", "text" }

ClipWidgetExtensions == { ".safetensors", ".ckpt", ".pt", ".pth", ".bin" }

LoaderWidgetExtensions == { ".safetensors", ".ckpt", ".pt", ".pth", ".bin", ".gguf" }

\* widgets[0] as { <<key, value>> } when it is a string, else nothing
FirstWidget(widgets, key) ==
    IF Len(widgets) > 0 /\ IsStr(widgets[1]) THEN { <<key, widgets[1]>> } ELSE {}

\* every string widget ending in one of exts, keyed prefix + its 0-based position
ScanWidgets(widgets, prefix, exts) ==
    { <<prefix \o IntStr(i - 1), widgets[i]>> :
        i \in { j \in DOMAIN widgets :
                  IsStr(widgets[j])
                  /\ \E ext \in exts : EndsWith(Lower(widgets[j].v), ext) } }

\* The branch of the widget mapping a lower-cased node type takes: the key
\* widgets[0] is stored under, or the key prefix of a scan over all widgets.
SyntheticBranch(node_type) ==
    IF Contains(node_type, "checkpoint") \/ Contains(node_type, "checkpointloader")
    THEN [first |-> TRUE, key |-> "ckpt_name"]
    ELSE IF (Contains(node_type, "vae") /\ Contains(node_type, "loader"))
            \/ Contains(node_type, "vaeloader")
    THEN [first |-> TRUE, key |-> "vae_name"]
    ELSE IF (Contains(node_type, "clip") /\ Contains(node_type, "loader"))
            \/ Contains(node_type, "cliploader") \/ Contains(node_type, "dualcliploader")
    THEN [first |-> FALSE, key |-> "clip_name_"]
    ELSE IF (Contains(node_type, "lora") /\ Contains(node_type, "loader"))
            \/ Contains(node_type, "loraloader")
    THEN [first |-> TRUE, key |-> "lora_name"]
    ELSE IF Contains(node_type, "unet") /\ Contains(node_type, "loader")
    THEN [first |-> TRUE, key |-> "model_name"]
    ELSE IF Contains(node_type, "upscale") /\ Contains(node_type, "model")
    THEN [first |-> TRUE, key |-> "upscale_model_name"]
    ELSE [first |-> FALSE, key |-> "model_"]

\* The synthetic inputs of a UI node, from its widgets_values by position.
SyntheticInputs(node_type, widgets) ==
    LET branch == SyntheticBranch(node_type)
    IN  IF branch.first THEN FirstWidget(widgets, branch.key)
        ELSE ScanWidgets(widgets, branch.key,
                         IF branch.key = "clip_name_" THEN ClipWidgetExtensions
                         ELSE LoaderWidgetExtensions)

\* node.get("widgets_values", [])
WidgetsOf(node) == IF HasKey(node, "widgets_values") THEN node.v["widgets_values"] ELSE List(<<>>)

\* node.get("type", "")
TypeOf(node) == IF HasKey(node, "type") THEN node.v["type"] ELSE Str("")

\* What indexing and enumerating widgets_values goes through: the items of a
\* list, the characters of a string, the keys of a dict.
WidgetSeq(widgets) ==
    CASE widgets.t = "list" -> widgets.v
      [] widgets.t = "str" -> [i \in 1 .. Len(widgets.v) |-> Str(SubSeq(widgets.v, i, i))]
      [] widgets.t = "dict" -> [i \in DOMAIN Sorted(DOMAIN widgets.v) |->
                                   Str(Sorted(DOMAIN widgets.v)[i])]
      [] OTHER -> <<>>

\* A UI node with truthy widgets raises inside the single try block of the
\* function when its type is no string (.lower()), when its widgets are a
\* number (len, enumerate), or when they are a dict and widgets[0] is read.
UiNodeRaises(node) ==
    /\ IsDict(node)
    /\ Truthy(WidgetsOf(node))
    /\ \/ ~IsStr(TypeOf(node))
       \/ WidgetsOf(node).t = "num"
       \/ WidgetsOf(node).t = "dict" /\ SyntheticBranch(Lower(TypeOf(node).v)).first

\* The item sets the UI form contributes: the synthetic inputs of every node
\* with widgets, and its own inputs when they are a non-empty dict.
UiItemSets(workflow) ==
    LET ns == UiNodeList(workflow)
        dicts == { i \in DOMAIN ns : IsDict(ns[i]) }
    IN  { SyntheticInputs(Lower(TypeOf(ns[i]).v), WidgetSeq(WidgetsOf(ns[i]))) :
            i \in { j \in dicts : Truthy(WidgetsOf(ns[j])) } }
        \cup
        { Items(ns[i].v["inputs"]) :
            i \in { j \in dicts : HasKey(ns[j], "inputs") /\ IsDict(ns[j].v["inputs"])
                                   /\ Truthy(ns[j].v["inputs"]) } }

\* The item sets the API form contributes: the inputs of every top-level dict
\* value that has the key, when they are a dict.
ApiInputNodes(workflow) ==
    { i \in DOMAIN workflow.v : IsDict(workflow.v[i]) /\ HasKey(workflow.v[i], "inputs") }

ApiItemSets(workflow) ==
    { Items(workflow.v[i].v["inputs"]) :
        i \in { j \in ApiInputNodes(workflow) : IsDict(workflow.v[j].v["inputs"]) } }

KeyIsModelInput(key) == \E model_key \in model_input_keys : Contains(Lower(key), model_key)

\* The filter of the extraction loop: a non-blank string under a model-input
\* key that has no non-model extension and is no placeholder name.
IsWeightItem(key, value) ==
    /\ KeyIsModelInput(key)
    /\ IsStr(value)
    /\ StripNonEmpty(value.v)
    /\ ~\E ext \in non_model_extensions : EndsWith(Lower(value.v), ext)
    /\ Lower(value.v) \notin PlaceholderNames

WeightsOfItems(items) == { it[2].v : it \in { p \in items : IsWeightItem(p[1], p[2]) } }

extract_weights_from_workflow(workflow) ==
    IF ~IsDict(workflow) THEN {}
    ELSE IF ApiInputNodes(workflow) # {}
    THEN UNION { WeightsOfItems(items) : items \in ApiItemSets(workflow) }
    ELSE IF \E i \in DOMAIN UiNodeList(workflow) : UiNodeRaises(UiNodeList(workflow)[i])
    THEN {}
    ELSE UNION { WeightsOfItems(items) : items \in UiItemSets(workflow) }

\* The preloader's copy of the function (preload_workflows_build.py). Its
\* filter also drops the values that start with "http", "data:", "/" or ".".
PreloadValuePrefixes == { "http", "data:", "/", "." }

PreloadIsWeightItem(key, value) ==
    /\ IsWeightItem(key, value)
    /\ ~\E prefix \in PreloadValuePrefixes : StartsWith(Lower(value.v), prefix)

PreloadWeightsOfItems(items) ==
    { it[2].v : it \in { p \in items : PreloadIsWeightItem(p[1], p[2]) } }

\* node.get("widgets_values", node.get("inputs", {})) of a UI node
PreloadUiInputs(node) ==
    IF HasKey(node, "widgets_values") THEN node.v["widgets_values"]
    ELSE IF HasKey(node, "inputs") THEN node.v["inputs"]
    ELSE EmptyDict

\* The item sets its UI form contributes: of every dict node, widgets_values
\* when the key is there and inputs otherwise, when that is a dict.
PreloadUiItemSets(workflow) ==
    LET ns == UiNodeList(workflow)
    IN  { Items(PreloadUiInputs(ns[i])) :
            i \in { j \in DOMAIN ns : IsDict(ns[j]) /\ IsDict(PreloadUiInputs(ns[j])) } }

preload_extract_weights_from_workflow(workflow) ==
    IF ~IsDict(workflow) THEN {}
    ELSE IF ApiInputNodes(workflow) # {}
    THEN UNION { PreloadWeightsOfItems(items) : items \in ApiItemSets(workflow) }
    ELSE UNION { PreloadWeightsOfItems(items) : items \in PreloadUiItemSets(workflow) }

(***************************************************************************)
(* Destination paths.                                                      *)
(***************************************************************************)

\* os.path.basename: what follows the last '/'
RECURSIVE Basename(_)
Basename(s) ==
    IF Contains(s, "/")
    THEN Basename(SubSeq(s, 2, Len(s)))
    ELSE s

\* str.replace(t, ""), t not empty
RECURSIVE RemoveAll(_, _)
RemoveAll(s, t) ==
    IF s = "" THEN ""
    ELSE IF StartsWith(s, t) THEN RemoveAll(SubSeq(s, Len(t) + 1, Len(s)), t)
    ELSE SubSeq(s, 1, 1) \o RemoveAll(SubSeq(s, 2, Len(s)), t)

\* url.split('?')[0]
RECURSIVE BeforeQuery(_)
BeforeQuery(s) ==
    IF s = "" \/ SubSeq(s, 1, 1) = "?" THEN ""
    ELSE SubSeq(s, 1, 1) \o BeforeQuery(SubSeq(s, 2, Len(s)))

\* The clone destination of a repository URL.
RepoDest(repo_url) ==
    "ComfyUI/custom_nodes/" \o Basename(RemoveAll(RStripSlash(repo_url), ".git"))

\* The keyword groups of detect_model_type, in declaration order.
ModelTypePatterns ==
    << <<"photomaker", <<"photomaker">> >>,
       <<"gligen", <<"gligen">> >>,
       <<"diffusers", <<"/diffusers/", "diffusers_model", "hf-hub", "huggingface">> >>,
       <<"loras", <<"_lora.", "-lora.", ".lora", "lora_", "xlora", "locon", "_lyco", "-lyco">> >>,
       <<"vae", <<"_vae.", "-vae.", "_vae-", "-vae-", "vae_", " vae", "(vae", "vae)",
                  "vae.safetensors">> >>,
       <<"vae_approx", <<"taesd", "vae_approx", "approximation">> >>,
       <<"clip_vision", <<"clip_vision", "clip-vision", "clipvision", "vision_model", "siglip">> >>,
       <<"text_encoders", <<"text_encoder", "text-encoder", "sd15_clip", "sdxl_clip", "clip">> >>,
       <<"controlnet", <<"controlnet", "control_net", "_cnet", "-cnet", "cnet_", "controlnet_",
                         "t2i_adapter">> >>,
       <<"style_models", <<"style_model", "stylegan", "aesthetic", "style.safetensors">> >>,
       <<"embeddings", <<"embedding", "textual_inversion", "embedding_", "_embedding",
                         "embeddings", "ti_">> >>,
       <<"classifiers", <<"classifier", "classification", "safety_checker">> >>,
       <<"upscale_models", <<"upscale", "upscaler", "super-resolution", "_x4", "_x2", "_x8",
                             "_x16", "realesrgan", "bsrgan", "esrgan", "gfpgan", "face_restore",
                             "codeformer">> >>,
       <<"diffusion_models", <<"unet", "diffusion", "_unet", "-unet", "model_", "flux", "sd_",
                               "hunyuan">> >>,
       <<"hypernetworks", <<"hypernet", "hypernetwork">> >>,
       <<"model_patches", <<"patch", "lora.patch", "safetensors.patch">> >>,
       <<"audio_encoders", <<"audio_encoder", "wav2vec", "vocos">> >> >>

\* Whether group g has a keyword occurring in the combined string.
GroupMatches(g, combined) ==
    \E k \in DOMAIN ModelTypePatterns[g][2] : Contains(combined, ModelTypePatterns[g][2][k])

\* The group the loop over patterns.items() returns at: the first declared.
LastHit(hits) == CHOOSE g \in hits : \A h \in hits : g >= h

FirstHit(hits) == CHOOSE g \in hits : \A h \in hits : g <= h

detect_model_type(filename, url) ==
    LET combined == Lower(filename) \o "|" \o Lower(url)
        hits == { g \in DOMAIN ModelTypePatterns : GroupMatches(g, combined) }
    IN  IF hits = {} THEN "checkpoints"
        ELSE ModelTypePatterns[FirstHit(hits)][1]

\* The destination path of download_from_url; save_path "" stands for None.
DownloadDest(url, save_path) ==
    LET filename == Basename(BeforeQuery(url))
        dest_dir == IF save_path # "" THEN "ComfyUI/models/" \o save_path
                    ELSE "ComfyUI/models/" \o detect_model_type(filename, url)
    IN  dest_dir \o "/" \o filename

(***************************************************************************)
(* The files the installer reads, and the workflows it is run on.          *)
(***************************************************************************)
RepoA == "https://github.com/acme/repo-a"

RepoB == "https://github.com/acme/repo-b.git"

ComfyUpstream == "https://github.com/comfyanonymous/ComfyUI/"

\* custom_node_class_map.json: class name -> repository URL
class_repo_map ==
    ("NodeA1" :> RepoA) @@ ("NodeA2" :> RepoA) @@ ("NodeB" :> RepoB)
    @@ ("ComfyCore" :> ComfyUpstream)

\* custom_nodes.json as loaded: repository URL -> commit
repo_commit_map == (RepoB :> "abc123")

Repos == { class_repo_map[c] : c \in DOMAIN class_repo_map }

\* The classes the engine's own registry may already provide.
AvailablePool == { "NodeB" }

UrlWeight == "https://h.co/dl/u_model.safetensors?download=true"

ManifestWeight == "m_lora.safetensors"

CatalogWeight == "sd_cat.safetensors"

NoSourceWeight == "nowhere.ckpt"

\* The model list served at COMFYUI_MANAGER_MODEL_LIST_URL.
Catalog ==
    << [filename |-> "sd_cat.safetensors",
        url |-> "https://cat.example/files/sd_cat.safetensors",
        save_path |-> "checkpoints"] >>

\* The input names extract_required_weights reads.
model_input_names ==
    { "ckpt_name", "unet_name", "clip_name", "clip_name1", "clip_name2", "clip_name3",
      "clip_name4", "vae_name", "control_net_name", "style_model_name", "gligen_name",
      "model_name", "hypernetwork_name", "lora_name" }

SharedWeight == "shared_vae.safetensors"

\* An entry of the manifest: one destination descriptor, or a list of them.
DestDict(dest) == [list |-> FALSE, dest |-> dest]

DestList(dests) == [list |-> TRUE, items |-> [i \in DOMAIN dests |-> [dest |-> dests[i]]]]

\* The weights manifest of WeightsDownloader: canonical name -> destination(s)
weights_map ==
    (ManifestWeight :> DestDict("ComfyUI/models/loras"))
    @@ ("model.safetensors" :> DestDict("ComfyUI/models/checkpoints"))
    @@ (SharedWeight :> DestList(<< "ComfyUI/models/vae", "ComfyUI/models/vae_approx" >>))

\* WeightsDownloader.check_if_file_exists(weight, dest) on a disk holding `disk`
check_if_file_exists(weight, dest, disk) == (dest \o "/" \o weight) \in disk

get_canonical_weight_unchanged(w) == w

\* WeightsDownloader.get_canonical_weight_str: a .sft suffix becomes .safetensors
get_canonical_weight_str(w) ==
    IF EndsWith(w, ".sft") THEN SubSeq(w, 1, Len(w) - 4) \o ".safetensors" ELSE w

\* Where download_weights stores a weight of the manifest: its first destination.
ManifestDest(w) ==
    LET dest_info == weights_map[get_canonical_weight_str(w)]
        dest == IF dest_info.list THEN dest_info.items[1].dest ELSE dest_info.dest
    IN  dest \o "/" \o get_canonical_weight_str(w)

ApiNode(class_type, inputs) ==
    Dict(("class_type" :> Str(class_type)) @@ ("inputs" :> Dict(inputs)))

UiNode(type, widgets) ==
    Dict(("type" :> Str(type)) @@ ("widgets_values" :> List(widgets)))

(***************************************************************************)
(* ComfyUI.extract_required_weights and ComfyUI.validate_weights_exist     *)
(***************************************************************************)

supported_extensions == { ".safetensors", ".ckpt", ".pt", ".pth", ".bin", ".onnx" }

\* The input keys extract_required_weights reads for a loader class.
LoaderKeys(class_type) ==
    CASE class_type \in { "CheckpointLoaderSimple", "CheckpointLoader",
                          "unCLIPCheckpointLoader", "ImageOnlyCheckpointLoader" } -> { "ckpt_name" }
      [] class_type = "UNETLoader" -> { "unet_name" }
      [] class_type = "CLIPLoader" -> { "clip_name" }
      [] class_type = "DualCLIPLoader" -> { "clip_name1", "clip_name2" }
      [] class_type = "TripleCLIPLoader" -> { "clip_name1", "clip_name2", "clip_name3" }
      [] class_type = "QuadrupleCLIPLoader" ->
             { "clip_name1", "clip_name2", "clip_name3", "clip_name4" }
      [] class_type = "VAELoader" -> { "vae_name" }
      [] class_type \in { "ControlNetLoader", "DiffControlNetLoader" } -> { "control_net_name" }
      [] class_type = "CLIPVisionLoader" -> { "clip_name" }
      [] class_type = "StyleModelLoader" -> { "style_model_name" }
      [] class_type = "GLIGENLoader" -> { "gligen_name" }
      [] class_type = "UpscaleModelLoader" -> { "model_name" }
      [] class_type = "HypernetworkLoader" -> { "hypernetwork_name" }
      [] class_type \in { "LoraLoader", "LoraLoaderModelOnly" } -> { "lora_name" }
      [] OTHER -> {}

\* node.get("class_type") as a string, "" when absent or no string
ClassTypeOf(node) ==
    IF HasKey(node, "class_type") /\ IsStr(node.v["class_type"])
    THEN node.v["class_type"].v ELSE ""

InputsOf(node) == IF HasKey(node, "inputs") THEN node.v["inputs"] ELSE EmptyDict

\* The (node, key) pairs extract_required_weights reads a value from.
LoaderReads(workflow) ==
    { <<id, key>> \in (DOMAIN workflow.v) \X model_input_names :
        /\ IsDict(workflow.v[id])
        /\ key \in LoaderKeys(ClassTypeOf(workflow.v[id]))
        /\ IsDict(InputsOf(workflow.v[id]))
        /\ HasKey(InputsOf(workflow.v[id]), key) }

\* extract_required_weights raises on a node that is no dict, on inputs of a
\* loader that are no dict, and on a truthy name that is no string.
RequiredWeightsRaises(workflow) ==
    \/ \E id \in DOMAIN workflow.v : ~IsDict(workflow.v[id])
    \/ \E id \in DOMAIN workflow.v :
         /\ IsDict(workflow.v[id])
         /\ LoaderKeys(ClassTypeOf(workflow.v[id])) # {}
         /\ ~IsDict(InputsOf(workflow.v[id]))
    \/ \E r \in LoaderReads(workflow) :
         LET value == InputsOf(workflow.v[r[1]]).v[r[2]]
         IN  Truthy(value) /\ ~IsStr(value)

\* extract_required_weights(workflow): list(set(required_weights)), as a set
extract_required_weights(workflow) ==
    { InputsOf(workflow.v[r[1]]).v[r[2]].v :
        r \in { q \in LoaderReads(workflow) :
                  LET value == InputsOf(workflow.v[q[1]]).v[q[2]]
                  IN  /\ IsStr(value)
                      /\ value.v # ""
                      /\ \E ext \in supported_extensions : EndsWith(value.v, ext) } }

ExistsAtFirst(weight_canonical, dest_info, disk) ==
    check_if_file_exists(weight_canonical,
                         IF dest_info.list THEN dest_info.items[1].dest ELSE dest_info.dest,
                         disk)

\* exists: any destination of a list has the file, or the one destination has it.
ExistsAtDestination(weight_canonical, dest_info, disk) ==
    IF dest_info.list
    THEN \E i \in DOMAIN dest_info.items :
           check_if_file_exists(weight_canonical, dest_info.items[i].dest, disk)
    ELSE check_if_file_exists(weight_canonical, dest_info.dest, disk)

\* What validate_weights_exist appends to missing_weights for one weight.
MissingFor(weight, disk) ==
    LET weight_canonical == get_canonical_weight_str(weight)
    IN  IF weight_canonical \in DOMAIN weights_map
        THEN IF ExistsAtDestination(weight_canonical, weights_map[weight_canonical], disk)
             THEN {} ELSE { weight_canonical }
        ELSE { weight }

\* validate_weights_exist(workflow, skip_check) on a disk holding `disk`:
\* (all_exist, missing_weights), the list as a set.
validate_weights_exist(workflow, skip_check, disk) ==
    IF skip_check THEN [all_exist |-> TRUE, missing_weights |-> {}]
    ELSE LET missing_weights ==
                 UNION { MissingFor(weight, disk) : weight \in extract_required_weights(workflow) }
         IN  [all_exist |-> missing_weights = {}, missing_weights |-> missing_weights]

\* CheckpointLoaderSimple{ckpt_name: "model.sft"} and the unmapped FooCustomNode
WfEndToEnd ==
    Dict(("1" :> ApiNode("CheckpointLoaderSimple", ("ckpt_name" :> Str("model.sft"))))
         @@ ("2" :> ApiNode("FooCustomNode", <<>>)))

\* Two classes of one repository, a class of a pinned one, two weights
WfRepos ==
    Dict(("1" :> ApiNode("NodeA1", ("model" :> List(<<Str("4"), Num(0)>>))
                                   @@ ("lora_name" :> Str(ManifestWeight))))
         @@ ("2" :> ApiNode("NodeA2", ("ckpt_name" :> Str(UrlWeight))))
         @@ ("3" :> ApiNode("NodeB", ("image" :> Str("input.png"))))
         @@ ("4" :> ApiNode("KSampler", ("steps" :> Num(20)))))

\* The UI form: a nodes list with widgets_values
WfUi ==
    Dict(("nodes" :> List(<< UiNode("CheckpointLoaderSimple", <<Str(CatalogWeight)>>),
                             UiNode("NodeB", <<Str(NoSourceWeight), Num(1)>>),
                             UiNode("SaveImage", <<Str("ComfyUI")>>) >>))
         @@ ("links" :> List(<<>>)))

\* A class mapped to the engine's own upstream repository
WfCore ==
    Dict(("1" :> ApiNode("ComfyCore", ("vae_name" :> Str(CatalogWeight))))
         @@ ("2" :> ApiNode("NodeA1", <<>>)))

\* Base classes only, three weights
WfWeights ==
    Dict(("1" :> ApiNode("CheckpointLoaderSimple", ("ckpt_name" :> Str(CatalogWeight))))
         @@ ("2" :> ApiNode("LoraLoader", ("lora_name" :> Str(ManifestWeight))))
         @@ ("3" :> ApiNode("UNETLoader", ("unet_name" :> Str("ignored.safetensors"))
                                          @@ ("model_name" :> Str(UrlWeight)))))

\* A workflow argument: text that parses to a workflow, or text that parse_workflow rejects.
Parsed(workflow) == [ok |-> TRUE, workflow |-> workflow]

Unparseable == [ok |-> FALSE, workflow |-> EmptyDict]

\* The command lines the installer is run with.
Batches ==
    { <<>>,
      <<Parsed(WfEndToEnd)>>,
      <<Parsed(WfRepos)>>,
      <<Parsed(WfUi)>>,
      <<Unparseable, Parsed(WfCore)>>,
      <<Parsed(WfWeights)>>,
      <<Parsed(WfRepos), Parsed(WfUi)>> }

(***************************************************************************)
(* The installer process, the disk it works on, and the progress file.     *)
(***************************************************************************)

\* How many times the installer process is started on the same command line.
MaxRuns == 2

VARIABLES
    batch,              \* the workflow arguments of the command line
    runs,               \* processes started so far
    pc,                 \* where the process is
    exit_code,          \* the status it exited with, NoExit while it has not
    all_node_types,     \* main: class names of the parsed workflows
    all_weights,        \* main: weight references of the parsed workflows
    progress,           \* the progress dict in memory
    repos_to_install,   \* the repositories of the missing classes
    todo_repos,         \* repos_to_install not yet visited
    unresolved,         \* the unresolved list
    todo_weights,       \* sorted(weights) not yet visited
    cur,                \* the repository URL or weight being installed
    dest,               \* the destination path of the running transfer
    attempt,            \* the attempt counter of the running retry loop
    slept,              \* the time.sleep arguments of the running retry loop
    cache,              \* _comfyui_manager_models_cache: "none" or "loaded"
    dirs,               \* custom_nodes: destination -> absent, partial, complete
    files,              \* model files: path -> absent, partial, complete
    progress_file,      \* .installation_progress.json
    ledger0,            \* what load_progress read when the process started
    events,             \* what this process has issued: <<kind, item>>
    completed,          \* the items whose transfer this process finished
    cleared,            \* whether this process has called clear_progress
    failure,            \* why this process gave up, "none" while it has not
    tried,              \* the sources tried for the current weight, in order
    clone_calls,        \* how often this process has called clone_repo, by URL
    persisted,          \* what save_progress has written since the ledger was last cleared
    call,               \* a call of one of the pure functions: its name and arguments
    ret,                \* what the call returned, once it has
    pre,                \* preload_all_workflows: its locals and where it is
    conc,               \* two installer processes on one progress file
    builder,            \* a WorkflowBuilder and the dicts its callers hold
    manager             \* the catalog cache of the installer and the clock

vars ==
    << batch, runs, pc, exit_code, all_node_types, all_weights, progress,
       repos_to_install, todo_repos, unresolved, todo_weights, cur, dest, attempt, slept,
       cache, dirs, files, progress_file, ledger0, events, completed, cleared, failure, tried,
       clone_calls, persisted, call, ret, pre, conc, builder, manager >>

NoExit == 0 - 1

\* No function call is under way in the installer process.
NoCall == [fn |-> "none"]

NotReturned == [done |-> FALSE]

Returned(value) == [done |-> TRUE, value |-> value]

\* preload_all_workflows is not running.
NoPreload == [pc |-> "none"]

\* No WorkflowBuilder has been constructed.
NoBuilder == [node_counter |-> 0]

\* The catalog lookup of the installer is not under study.
NoManager == [pc |-> "none"]

\* No second installer process runs beside the first.
NoConcurrency == [file |-> "none"]

EmptyProgress == [installed_repos |-> {}, downloaded_weights |-> {}]

\* The process has not called clone_repo.
NoCloneCalls == [r \in Repos |-> 0]

AbsentFile == [st |-> "absent", content |-> EmptyProgress]

\* open(PROGRESS_FILE, "w") has truncated the file; nothing is written yet
TruncatedFile == [st |-> "truncated", content |-> EmptyProgress]

WrittenFile(p) == [st |-> "written", content |-> p]

\* load_progress: the parsed file, the empty record when it is missing or unreadable
load_progress(f) == IF f.st = "written" THEN f.content ELSE EmptyProgress

\* clear_progress: os.remove
clear_progress(f) == AbsentFile

RepoDests == { RepoDest(r) : r \in Repos }

FilePaths ==
    { DownloadDest(UrlWeight, "") }
    \cup { DownloadDest(Catalog[i].url, Catalog[i].save_path) : i \in DOMAIN Catalog }
    \cup { ManifestDest(w) : w \in DOMAIN weights_map }

\* exists that never finds the path
PathExistsNever(st) == FALSE

\* os.path.exists
PathExists(st) == st # "absent"

\* a handler that leaves what the failed attempt wrote
RemoveDestSkipped(st) == st

\* The except handlers of the retry loops: if os.path.exists(dest) then
\* shutil.rmtree(dest), or os.remove(dest_path), with the tool already ended.
RemoveDest(st) == "absent"

\* a backoff that multiplies instead of raising to the power
WaitTimeDoubled(a) == 2 * a

\* the backoff of the retry loops: wait_time = 2 ** attempt
WaitTime(a) == 2 ^ a

\* range(3)
MaxAttempts == 3

\* a retry test that allows one retry only
RetryAgainOnce(a) == a < 1

\* attempt < 2: another attempt follows
RetryAgain(a) == a < MaxAttempts - 1

Init ==
    /\ batch \in Batches
    /\ runs = 1
    /\ pc = "main"
    /\ exit_code = NoExit
    /\ all_node_types = {}
    /\ all_weights = {}
    /\ progress = EmptyProgress
    /\ repos_to_install = {}
    /\ todo_repos = {}
    /\ unresolved = <<>>
    /\ todo_weights = <<>>
    /\ cur = ""
    /\ dest = ""
    /\ attempt = 0
    /\ slept = <<>>
    /\ cache = "none"
    /\ dirs = [d \in RepoDests |-> "absent"]
    /\ files = [f \in FilePaths |-> "absent"]
    /\ progress_file = AbsentFile
    /\ ledger0 = EmptyProgress
    /\ events = {}
    /\ completed = {}
    /\ cleared = FALSE
    /\ failure = "none"
    /\ tried = <<>>
    /\ clone_calls = NoCloneCalls
    /\ persisted = EmptyProgress
    /\ call = NoCall
    /\ ret = NotReturned
    /\ pre = NoPreload
    /\ conc = NoConcurrency
    /\ builder = NoBuilder
    /\ manager = NoManager

\* sys.exit(1) on a fatal failure
FatalExit(why) ==
    /\ pc' = "exited"
    /\ exit_code' = 1
    /\ failure' = why

\* The arguments the loop of main processes: all up to the first that does
\* not parse, or, with the except and continue of the loop, all that parse.
ProcessedUntilError(workflows) ==
    { i \in DOMAIN workflows : \A j \in 1..i : workflows[j].ok }

ProcessedWorkflows(workflows) == { i \in DOMAIN workflows : workflows[i].ok }

\* main up to the install calls: parse every argument, skip the ones that do
\* not parse, and collect the class names and weight references of the rest.
Main ==
    /\ pc = "main"
    /\ IF batch = <<>>
       THEN /\ pc' = "exited"
            /\ exit_code' = 1
            /\ UNCHANGED <<all_node_types, all_weights>>
       ELSE LET parsed == ProcessedWorkflows(batch)
            IN  /\ all_node_types' =
                      UNION { extract_nodes_from_workflow(batch[i].workflow) : i \in parsed }
                /\ all_weights' =
                      UNION { extract_weights_from_workflow(batch[i].workflow) : i \in parsed }
                /\ pc' = "install_custom_nodes"
                /\ UNCHANGED exit_code
    /\ UNCHANGED << persisted, builder, manager, conc, clone_calls, pre, call, ret, batch, runs, progress, repos_to_install, todo_repos, unresolved, todo_weights, cur, dest,
                    attempt, slept, cache, dirs, files, progress_file, ledger0, events,
                    completed, cleared, failure, tried >>

IsUpstreamNever(repo_url) == FALSE

\* The repository URLs that are the engine's own upstream.
IsUpstream(repo_url) ==
    RStripSlash(repo_url) \in { "https://github.com/comfyanonymous/ComfyUI",
                                "https://github.com/Comfy-Org/ComfyUI" }

\* The mapping loop: the repositories of the missing classes, the upstream left out.
ReposToInstall(missing_nodes) ==
    { class_repo_map[n] : n \in { m \in missing_nodes :
                                    m \in DOMAIN class_repo_map /\ ~IsUpstream(class_repo_map[m]) } }

\* The classes of the mapping loop that have no repository.
UnresolvedSet(missing_nodes) == { n \in missing_nodes : n \notin DOMAIN class_repo_map }

\* The orders in which iterating a set can visit it.
RECURSIVE Orders(_)
Orders(S) ==
    IF S = {} THEN { <<>> }
    ELSE UNION { { <<x>> \o q : q \in Orders(S \ {x}) } : x \in S }

AllNodesNeeded(node_types) == node_types

\* The base filter: the class names that are not in BASE_COMFY_NODES.
CustomNodesNeeded(node_types) == node_types \ BASE_COMFY_NODES

\* install_custom_nodes up to its loop over repos_to_install.
InstallCustomNodes ==
    /\ pc = "install_custom_nodes"
    /\ \E available_nodes \in SUBSET AvailablePool :
         LET custom_nodes_needed == CustomNodesNeeded(all_node_types)
             missing_nodes == custom_nodes_needed \ available_nodes
         IN  IF custom_nodes_needed = {} \/ missing_nodes = {}
             THEN /\ pc' = "download_weights"
                  /\ UNCHANGED <<progress, repos_to_install, todo_repos, unresolved>>
             ELSE /\ progress' = load_progress(progress_file)
                  /\ repos_to_install' = ReposToInstall(missing_nodes)
                  /\ todo_repos' = ReposToInstall(missing_nodes)
                  /\ unresolved' \in Orders(UnresolvedSet(missing_nodes))
                  /\ pc' = "repo_loop"
    /\ UNCHANGED << persisted, builder, manager, conc, clone_calls, pre, call, ret, batch, runs, exit_code, all_node_types, all_weights, todo_weights, cur,
                    dest, attempt, slept, cache, dirs, files, progress_file, ledger0, events,
                    completed, cleared, failure, tried >>

\* The unresolved check that follows the loop.
HasUnresolved(u) == u # <<>>

\* The loop is over: exit 1 when a class is unresolved, else go on to the weights.
RepoLoopDone ==
    /\ pc = "repo_loop"
    /\ todo_repos = {}
    /\ IF HasUnresolved(unresolved)
       THEN FatalExit("unresolved")
       ELSE /\ pc' = "download_weights"
            /\ UNCHANGED <<exit_code, failure>>
    /\ UNCHANGED << persisted, builder, manager, conc, clone_calls, pre, call, ret, batch, runs, all_node_types, all_weights, progress, repos_to_install, todo_repos,
                    unresolved, todo_weights, cur, dest, attempt, slept, cache, dirs, files,
                    progress_file, ledger0, events, completed, cleared, tried >>

RepoNeverInLedger(repo_url, p) == FALSE

\* The skip test of the loop: the URL is in the set read from the progress file.
RepoInLedger(repo_url, p) == repo_url \in p.installed_repos

\* One visit of the loop: skip a repository of the ledger; else call clone_repo,
\* which returns at once when the destination exists.
RepoVisit ==
    /\ pc = "repo_loop"
    /\ \E repo_url \in todo_repos :
         /\ todo_repos' = todo_repos \ {repo_url}
         /\ IF RepoInLedger(repo_url, progress)
            THEN UNCHANGED <<pc, cur, dest, attempt, slept, clone_calls>>
            ELSE /\ clone_calls' = [clone_calls EXCEPT ![repo_url] = @ + 1]
                 /\ cur' = repo_url
                 /\ dest' = RepoDest(repo_url)
                 /\ attempt' = 0
                 /\ slept' = <<>>
                 /\ pc' = IF PathExists(dirs[RepoDest(repo_url)])
                          THEN "cloned" ELSE "clone_attempt"
    /\ UNCHANGED << persisted, builder, manager, conc, pre, call, ret, batch, runs, exit_code, all_node_types, all_weights, progress,
                    repos_to_install, unresolved, todo_weights, cache, dirs, files,
                    progress_file, ledger0, events, completed, cleared, failure, tried >>

\* git clone starts writing the destination.
CloneStart ==
    /\ pc = "clone_attempt"
    /\ dirs' = [dirs EXCEPT ![dest] = "partial"]
    /\ events' = events \cup { <<"clone", cur>> }
    /\ pc' = "cloning"
    /\ UNCHANGED << persisted, builder, manager, conc, clone_calls, pre, call, ret, batch, runs, exit_code, all_node_types, all_weights, progress,
                    repos_to_install, todo_repos, unresolved, todo_weights, cur, dest, attempt, slept, cache,
                    files, progress_file, ledger0, completed, cleared, failure, tried >>

\* repo_commit_map.get(repo_url, "main")
CommitOf(repo_url) ==
    IF repo_url \in DOMAIN repo_commit_map THEN repo_commit_map[repo_url] ELSE "main"

\* What an attempt can end with; the checkout runs only for a pinned commit.
CloneOutcomes(repo_url) ==
    { "ok", "timeout", "error" }
    \cup (IF CommitOf(repo_url) # "main" THEN { "checkout_failed" } ELSE {})

\* The attempt ends: git clone, and for a commit other than main the git
\* checkout of it, have succeeded, or one of them has failed. A failed one removes the destination, then sleeps and
\* retries, or raises after the last attempt, which install_custom_nodes
\* turns into exit 1.
CloneFinish ==
    /\ pc = "cloning"
    /\ \E outcome \in CloneOutcomes(cur) :
         IF outcome = "ok"
         THEN /\ dirs' = [dirs EXCEPT ![dest] = "complete"]
              /\ events' = IF CommitOf(cur) # "main"
                           THEN events \cup { <<"checkout " \o CommitOf(cur), cur>> }
                           ELSE events
              /\ completed' = completed \cup {cur}
              /\ pc' = "cloned"
              /\ UNCHANGED <<attempt, slept, exit_code, failure>>
         ELSE /\ dirs' = [dirs EXCEPT ![dest] = RemoveDest(@)]
              /\ UNCHANGED <<completed, events>>
              /\ IF RetryAgain(attempt)
                 THEN /\ slept' = Append(slept, WaitTime(attempt))
                      /\ attempt' = attempt + 1
                      /\ pc' = "clone_attempt"
                      /\ UNCHANGED <<exit_code, failure>>
                 ELSE /\ FatalExit("clone")
                      /\ UNCHANGED <<attempt, slept>>
    /\ UNCHANGED << persisted, builder, manager, conc, clone_calls, pre, call, ret, batch, runs, all_node_types, all_weights, progress, repos_to_install, todo_repos,
                    unresolved, todo_weights, cur, dest, cache, files, progress_file,
                    ledger0, cleared, tried >>

\* What pip install -r requirements.txt can end with; "none" is a
\* repository without the file.
RequirementsOutcomes == { "none", "installed", "failed" }

RequirementsAbortOnFailure(outcome) == outcome = "failed"

\* The except around the pip call prints a warning and raises nothing.
RequirementsAbort(outcome) == FALSE

\* clone_repo has returned and the repository has a requirements.txt:
\* subprocess.run of pip install starts, with no timeout argument.
PipInstallStart ==
    /\ pc = "cloned"
    /\ pc' = "pip_install"
    /\ UNCHANGED << batch, runs, exit_code, all_node_types, all_weights, progress,
                    repos_to_install, todo_repos, unresolved, todo_weights, cur, dest,
                    attempt, slept, cache, dirs, files, progress_file, ledger0, events,
                    completed, cleared, failure, tried, clone_calls, persisted, call, ret,
                    pre, conc, builder, manager >>

\* The repository has no requirements.txt, or pip has ended: add the URL to
\* installed_repos (the install of the requirements is best effort), then
\* save_progress opens the file for writing.
RepoSaveOpen ==
    /\ pc \in { "cloned", "pip_install" }
    /\ \E requirements \in { o \in RequirementsOutcomes : (o = "none") <=> (pc = "cloned") } :
         /\ progress' = [progress EXCEPT !.installed_repos = @ \cup {cur}]
         /\ events' = IF requirements = "failed"
                      THEN events \cup { <<"requirements_failed", cur>> }
                      ELSE events
         /\ IF RequirementsAbort(requirements)
            THEN /\ FatalExit("requirements")
                 /\ UNCHANGED progress_file
            ELSE /\ progress_file' = TruncatedFile
                 /\ pc' = "saving_repo"
                 /\ UNCHANGED <<exit_code, failure>>
    /\ UNCHANGED << persisted, builder, manager, conc, clone_calls, pre, call, ret, batch, runs, all_node_types, all_weights, repos_to_install, todo_repos,
                    unresolved, todo_weights, cur, dest, attempt, slept, cache, dirs, files,
                    ledger0, completed, cleared, tried >>

\* json.dump and close: the file holds the progress dict.
RepoSaveWrite ==
    /\ pc = "saving_repo"
    /\ progress_file' = WrittenFile(progress)
    /\ pc' = "repo_loop"
    /\ persisted' = [installed_repos |-> persisted.installed_repos \cup progress.installed_repos,
                     downloaded_weights |-> persisted.downloaded_weights \cup progress.downloaded_weights]
    /\ UNCHANGED << builder, manager, conc, clone_calls, pre, call, ret, batch, runs, exit_code, all_node_types, all_weights, progress,
                    repos_to_install, todo_repos, unresolved, todo_weights, cur, dest, attempt, slept, cache,
                    dirs, files, ledger0, events, completed, cleared, failure, tried >>

\* a URL test that never recognises a URL
IsUrlNever(weight) == FALSE

\* weight.lower().startswith(('http://', 'https://'))
IsUrl(weight) == StartsWith(Lower(weight), "http://") \/ StartsWith(Lower(weight), "https://")

\* The skip test of the weight loop.
WeightInLedger(weight, p) == weight \in p.downloaded_weights

\* get_available_downloader: the first of pget, wget, curl on the host, or none.
Downloaders == { "pget", "wget", "curl", "none" }

\* download_from_url up to its retry loop: return when the destination file
\* exists, raise (fatal in either caller) when the host has no fetch tool.
EnterDownload(url, save_path) ==
    /\ dest' = DownloadDest(url, save_path)
    /\ IF PathExists(files[DownloadDest(url, save_path)])
       THEN /\ pc' = "downloaded"
            /\ UNCHANGED <<attempt, slept, exit_code, failure>>
       ELSE \E downloader \in Downloaders :
              IF downloader = "none"
              THEN /\ FatalExit("weight")
                   /\ UNCHANGED <<attempt, slept>>
              ELSE /\ attempt' = 0
                   /\ slept' = <<>>
                   /\ pc' = "download_attempt"
                   /\ UNCHANGED <<exit_code, failure>>

\* download_weights up to its loop over sorted(weights).
DownloadWeights ==
    /\ pc = "download_weights"
    /\ IF all_weights = {}
       THEN /\ pc' = "clear_progress"
            /\ UNCHANGED <<progress, todo_weights>>
       ELSE /\ progress' = load_progress(progress_file)
            /\ todo_weights' = Sorted(all_weights)
            /\ pc' = "weight_loop"
    /\ UNCHANGED << persisted, builder, manager, conc, clone_calls, pre, call, ret, batch, runs, exit_code, all_node_types, all_weights, repos_to_install, todo_repos,
                    unresolved, cur, dest, attempt, slept, cache, dirs, files,
                    progress_file, ledger0, events, completed, cleared, failure, tried >>

WeightLoopDone ==
    /\ pc = "weight_loop"
    /\ todo_weights = <<>>
    /\ pc' = "clear_progress"
    /\ UNCHANGED << persisted, builder, manager, conc, clone_calls, pre, call, ret, batch, runs, exit_code, all_node_types, all_weights, progress,
                    repos_to_install, todo_repos, unresolved, todo_weights, cur, dest, attempt, slept, cache,
                    dirs, files, progress_file, ledger0, events, completed, cleared,
                    failure, tried >>

\* One visit of the loop: skip a weight of the ledger; download a URL
\* directly; hand any other name to try_download_from_sources.
WeightVisit ==
    /\ pc = "weight_loop"
    /\ todo_weights # <<>>
    /\ LET weight == Head(todo_weights)
       IN  /\ todo_weights' = Tail(todo_weights)
           /\ IF WeightInLedger(weight, progress)
              THEN UNCHANGED <<pc, cur, dest, attempt, slept, exit_code, failure, tried,
                                events>>
              ELSE /\ cur' = weight
                   /\ events' = events \cup { <<"resolve", weight>> }
                   /\ IF IsUrl(weight)
                      THEN /\ tried' = <<"url">>
                           /\ EnterDownload(weight, "")
                      ELSE /\ tried' = <<>>
                           /\ pc' = "manifest"
                           /\ UNCHANGED <<dest, attempt, slept, exit_code, failure>>
    /\ UNCHANGED << persisted, builder, manager, conc, clone_calls, pre, call, ret, batch, runs, all_node_types, all_weights, progress, repos_to_install, todo_repos,
                    unresolved, cache, dirs, files, progress_file, ledger0, completed,
                    cleared >>

\* try_download_from_sources, first source: WeightsDownloader.download_weights.
\* The import can fail; a name the manifest lacks raises ValueError; both fall
\* through to the catalog. Any other error of the download is fatal.
ManifestTry ==
    /\ pc = "manifest"
    /\ tried' = Append(tried, "manifest")
    /\ events' = events \cup { <<"manifest", cur>> }
    /\ \E outcome \in { "import_error", "ok", "download_error" } :
         IF outcome = "import_error" \/ get_canonical_weight_str(cur) \notin DOMAIN weights_map
         THEN /\ pc' = "catalog"
              /\ UNCHANGED <<files, completed, exit_code, failure>>
         ELSE IF outcome = "ok"
         THEN /\ files' = [files EXCEPT ![ManifestDest(cur)] = "complete"]
              /\ completed' = completed \cup {cur}
              /\ pc' = "downloaded"
              /\ UNCHANGED <<exit_code, failure>>
         ELSE /\ FatalExit("weight")
              /\ UNCHANGED <<files, completed>>
    /\ UNCHANGED << persisted, builder, manager, conc, clone_calls, pre, call, ret, batch, runs, all_node_types, all_weights, progress, repos_to_install, todo_repos,
                    unresolved, todo_weights, cur, dest, attempt, slept, cache, dirs,
                    progress_file, ledger0, cleared >>

\* model.get('filename', '').lower()
GetFilename(model) == IF "filename" \in DOMAIN model THEN Lower(model.filename) ELSE ""

\* a lookup of one loop, which returns the first entry that matches either way
find_model_in_one_pass(models, filename) ==
    LET hit == { i \in DOMAIN models :
                   \/ "filename" \in DOMAIN models[i] /\ models[i].filename = filename
                   \/ Contains(GetFilename(models[i]), Lower(filename))
                   \/ Contains(Lower(filename), GetFilename(models[i])) }
    IN  IF hit = {} THEN 0 ELSE CHOOSE i \in hit : \A j \in hit : i <= j

\* a lookup that settles for the first entry of the list
find_first_model(models, filename) == IF models = <<>> THEN 0 ELSE 1

\* find_model_in_comfyui_manager on a model list: the index of the first entry
\* whose filename is the name, else of the first whose lower-cased filename
\* contains or is contained in the lower-cased name, else 0.
find_model_in_comfyui_manager(models, filename) ==
    LET exact == { i \in DOMAIN models :
                     "filename" \in DOMAIN models[i] /\ models[i].filename = filename }
        partial == { i \in DOMAIN models :
                       Contains(GetFilename(models[i]), Lower(filename))
                       \/ Contains(Lower(filename), GetFilename(models[i])) }
        first(S) == CHOOSE i \in S : \A j \in S : i <= j
    IN  IF exact # {} THEN first(exact)
        ELSE IF partial # {} THEN first(partial)
        ELSE 0

\* try_download_from_sources once the model list is known: download the
\* matching entry, or return False, which download_weights makes fatal.
ResolveFromCatalog(models) ==
    LET m == find_model_in_comfyui_manager(models, cur)
    IN  IF m = 0 \/ models[m].url = ""
        THEN /\ FatalExit("weight")
             /\ UNCHANGED <<dest, attempt, slept>>
        ELSE EnterDownload(models[m].url, models[m].save_path)

\* try_download_from_sources, second source: get_comfyui_manager_models
\* returns the cache while it is fresh, else starts fetching the list.
CatalogLookup ==
    /\ pc = "catalog"
    /\ tried' = Append(tried, "catalog")
    /\ \E fresh \in BOOLEAN :
         IF cache = "loaded" /\ fresh
         THEN ResolveFromCatalog(Catalog)
         ELSE /\ attempt' = 0
              /\ slept' = <<>>
              /\ pc' = "catalog_fetch"
              /\ UNCHANGED <<dest, exit_code, failure>>
    /\ UNCHANGED << persisted, builder, manager, conc, clone_calls, pre, call, ret, batch, runs, all_node_types, all_weights, progress, repos_to_install, todo_repos,
                    unresolved, todo_weights, cur, cache, dirs, files, progress_file,
                    ledger0, events, completed, cleared >>

\* One requests.get of the model list: a success fills the cache, a failure
\* sleeps and retries, and the third failure returns the empty list.
CatalogFetch ==
    /\ pc = "catalog_fetch"
    /\ events' = events \cup { <<"catalog_fetch", cur>> }
    /\ \E ok \in BOOLEAN :
         IF ok
         THEN /\ cache' = "loaded"
              /\ ResolveFromCatalog(Catalog)
         ELSE /\ UNCHANGED cache
              /\ IF RetryAgain(attempt)
                 THEN /\ slept' = Append(slept, WaitTime(attempt))
                      /\ attempt' = attempt + 1
                      /\ UNCHANGED <<pc, dest, exit_code, failure>>
                 ELSE ResolveFromCatalog(<<>>)
    /\ UNCHANGED << persisted, builder, manager, conc, clone_calls, pre, call, ret, batch, runs, all_node_types, all_weights, progress, repos_to_install, todo_repos,
                    unresolved, todo_weights, cur, dirs, files, progress_file, ledger0,
                    completed, cleared, tried >>

\* The fetch tool starts writing the destination file.
DownloadStart ==
    /\ pc = "download_attempt"
    /\ files' = [files EXCEPT ![dest] = "partial"]
    /\ events' = events \cup { <<"download", cur>> }
    /\ pc' = "downloading"
    /\ UNCHANGED << persisted, builder, manager, conc, clone_calls, pre, call, ret, batch, runs, exit_code, all_node_types, all_weights, progress,
                    repos_to_install, todo_repos, unresolved, todo_weights, cur, dest, attempt, slept, cache,
                    dirs, progress_file, ledger0, completed, cleared, failure, tried >>

\* The fetch tool ends. A failed one removes the file, then sleeps and
\* retries, or raises after the last attempt, which is fatal in either caller.
DownloadFinish ==
    /\ pc = "downloading"
    /\ \E outcome \in { "ok", "failed" } :
         IF outcome = "ok"
         THEN /\ files' = [files EXCEPT ![dest] = "complete"]
              /\ completed' = completed \cup {cur}
              /\ pc' = "downloaded"
              /\ UNCHANGED <<attempt, slept, exit_code, failure>>
         ELSE /\ files' = [files EXCEPT ![dest] = RemoveDest(@)]
              /\ UNCHANGED completed
              /\ IF RetryAgain(attempt)
                 THEN /\ slept' = Append(slept, WaitTime(attempt))
                      /\ attempt' = attempt + 1
                      /\ pc' = "download_attempt"
                      /\ UNCHANGED <<exit_code, failure>>
                 ELSE /\ FatalExit("weight")
                      /\ UNCHANGED <<attempt, slept>>
    /\ UNCHANGED << persisted, builder, manager, conc, clone_calls, pre, call, ret, batch, runs, all_node_types, all_weights, progress, repos_to_install, todo_repos,
                    unresolved, todo_weights, cur, dest, cache, dirs, progress_file,
                    ledger0, events, cleared, tried >>

\* The weight is there: add it to downloaded_weights, then save_progress
\* opens the file for writing.
WeightSaveOpen ==
    /\ pc = "downloaded"
    /\ progress' = [progress EXCEPT !.downloaded_weights = @ \cup {cur}]
    /\ progress_file' = TruncatedFile
    /\ pc' = "saving_weight"
    /\ UNCHANGED << persisted, builder, manager, conc, clone_calls, pre, call, ret, batch, runs, exit_code, all_node_types, all_weights, repos_to_install, todo_repos,
                    unresolved, todo_weights, cur, dest, attempt, slept, cache, dirs, files,
                    ledger0, events, completed, cleared, failure, tried >>

WeightSaveWrite ==
    /\ pc = "saving_weight"
    /\ progress_file' = WrittenFile(progress)
    /\ pc' = "weight_loop"
    /\ persisted' = [installed_repos |-> persisted.installed_repos \cup progress.installed_repos,
                     downloaded_weights |-> persisted.downloaded_weights \cup progress.downloaded_weights]
    /\ UNCHANGED << builder, manager, conc, clone_calls, pre, call, ret, batch, runs, exit_code, all_node_types, all_weights, progress,
                    repos_to_install, todo_repos, unresolved, todo_weights, cur, dest, attempt, slept, cache,
                    dirs, files, ledger0, events, completed, cleared, failure, tried >>

\* main after both install calls returned: clear_progress, then return 0.
ClearProgress ==
    /\ pc = "clear_progress"
    /\ progress_file' = clear_progress(progress_file)
    /\ cleared' = TRUE
    /\ exit_code' = 0
    /\ pc' = "exited"
    /\ persisted' = EmptyProgress
    /\ UNCHANGED << builder, manager, conc, clone_calls, pre, call, ret, batch, runs, all_node_types, all_weights, progress, repos_to_install, todo_repos,
                    unresolved, todo_weights, cur, dest, attempt, slept, cache, dirs, files,
                    ledger0, events, completed, failure, tried >>

Running == pc \notin { "exited", "killed" }

\* The process dies where it stands: SIGKILL ends it with no status, SIGINT
\* surfaces as KeyboardInterrupt and exit 1. Its memory is gone; the disk
\* stays as the running step left it.
Kill ==
    /\ Running
    /\ \E sig \in { "SIGKILL", "SIGINT" } :
         IF sig = "SIGKILL"
         THEN /\ pc' = "killed"
              /\ UNCHANGED <<exit_code, failure>>
         ELSE /\ pc' = "exited"
              /\ exit_code' = 1
              /\ failure' = "interrupted"
    /\ all_node_types' = {}
    /\ all_weights' = {}
    /\ progress' = EmptyProgress
    /\ repos_to_install' = {}
    /\ todo_repos' = {}
    /\ unresolved' = <<>>
    /\ todo_weights' = <<>>
    /\ cur' = ""
    /\ dest' = ""
    /\ attempt' = 0
    /\ slept' = <<>>
    /\ cache' = "none"
    /\ events' = {}
    /\ tried' = <<>>
    /\ clone_calls' = NoCloneCalls
    /\ UNCHANGED <<persisted, builder, manager, conc, pre, call, ret, batch, runs, dirs, files, progress_file, ledger0, completed, cleared>>

\* The installer is started again on the same command line.
Restart ==
    /\ ~Running
    /\ runs < MaxRuns
    /\ runs' = runs + 1
    /\ pc' = "main"
    /\ exit_code' = NoExit
    /\ all_node_types' = {}
    /\ all_weights' = {}
    /\ progress' = EmptyProgress
    /\ repos_to_install' = {}
    /\ todo_repos' = {}
    /\ unresolved' = <<>>
    /\ todo_weights' = <<>>
    /\ cur' = ""
    /\ dest' = ""
    /\ attempt' = 0
    /\ slept' = <<>>
    /\ cache' = "none"
    /\ ledger0' = load_progress(progress_file)
    /\ events' = {}
    /\ completed' = {}
    /\ cleared' = FALSE
    /\ failure' = "none"
    /\ tried' = <<>>
    /\ clone_calls' = NoCloneCalls
    /\ UNCHANGED <<persisted, builder, manager, conc, pre, call, ret, batch, dirs, files, progress_file>>

Next ==
    \/ Main
    \/ InstallCustomNodes
    \/ RepoLoopDone
    \/ RepoVisit
    \/ CloneStart
    \/ CloneFinish
    \/ PipInstallStart
    \/ RepoSaveOpen
    \/ RepoSaveWrite
    \/ DownloadWeights
    \/ WeightLoopDone
    \/ WeightVisit
    \/ ManifestTry
    \/ CatalogLookup
    \/ CatalogFetch
    \/ DownloadStart
    \/ DownloadFinish
    \/ WeightSaveOpen
    \/ WeightSaveWrite
    \/ ClearProgress
    \/ Kill
    \/ Restart

Spec == Init /\ [][Next]_vars

\* The steps of the installer process itself.
Program ==
    \/ Main
    \/ InstallCustomNodes
    \/ RepoLoopDone
    \/ RepoVisit
    \/ CloneStart
    \/ CloneFinish
    \/ PipInstallStart
    \/ RepoSaveOpen
    \/ RepoSaveWrite
    \/ DownloadWeights
    \/ WeightLoopDone
    \/ WeightVisit
    \/ ManifestTry
    \/ CatalogLookup
    \/ CatalogFetch
    \/ DownloadStart
    \/ DownloadFinish
    \/ WeightSaveOpen
    \/ WeightSaveWrite
    \/ ClearProgress

\* The control points of the installer process.
PcValues ==
    { "main", "install_custom_nodes", "repo_loop", "clone_attempt", "cloning", "cloned",
      "pip_install", "saving_repo", "download_weights", "weight_loop", "manifest", "catalog",
      "catalog_fetch", "download_attempt", "downloading", "downloaded", "saving_weight",
      "clear_progress", "exited", "killed" }

\* The control points whose loop can take a step and stay: the two for loops
\* over the items and the retry loop of get_comfyui_manager_models.
LoopPoints == { "repo_loop", "weight_loop", "catalog_fetch" }

\* subprocess.run without timeout= returns when the child ends, if it does.
Unbounded == pc = "pip_install"

\* The process moves on from a control point outside the loops, ...
LeavePoint ==
    /\ Running
    /\ ~Unbounded
    /\ pc \notin LoopPoints
    /\ pc' \in PcValues

\* ... the loop over repos_to_install takes its next item or ends, ...
NextRepo ==
    /\ pc = "repo_loop"
    /\ pc' \in PcValues
    /\ todo_repos' \in SUBSET todo_repos

\* ... the loop over sorted(weights) does, ...
NextWeight ==
    /\ pc = "weight_loop"
    /\ pc' \in PcValues
    /\ todo_weights' \in { SubSeq(todo_weights, i, Len(todo_weights)) :
                              i \in 1 .. Len(todo_weights) + 1 }

\* ... and requests.get(..., timeout=30) returns or raises.
NextFetch ==
    /\ pc = "catalog_fetch"
    /\ pc' \in PcValues
    /\ attempt' \in 0 .. MaxAttempts - 1

\* The process keeps running: a step of Python code is taken, a sleep ends,
\* and a call that carries a timeout (git clone 120, git checkout 30, the
\* fetch tools 600, requests.get 30) returns. A call without one need not.
\* Each condition asks for a change of the control point or of the loop
\* position, which every step of Program makes.
LiveSpec ==
    /\ Spec
    /\ WF_pc(LeavePoint)
    /\ WF_<<pc, todo_repos>>(NextRepo)
    /\ WF_<<pc, todo_weights>>(NextWeight)
    /\ WF_<<pc, attempt>>(NextFetch)

(***************************************************************************)
(* The functions of the repository called on their own: a call is drawn    *)
(* from a set of arguments and the function is applied to it.              *)
(***************************************************************************)

installer_vars ==
    << batch, runs, pc, exit_code, all_node_types, all_weights, progress,
       repos_to_install, todo_repos, unresolved, todo_weights, cur, dest, attempt, slept,
       cache, dirs, files, progress_file, ledger0, events, completed, cleared, failure, tried,
       clone_calls, persisted >>

\* File names detect_model_type is called on.
DetectFilenames ==
    { "my_lora_v2.safetensors", "sd_xl_base_1.0.safetensors", "controlnet_canny.pth",
      "model.safetensors", "lora_v1.safetensors", "vae.safetensors",
      "flux1-dev-fp8.safetensors", "controlnet-canny.safetensors", "upscale_x4.pth",
      "gfpgan_model.pth", "clip_vision.safetensors", "style_model.pt", "hypernetwork.pt",
      "unet_model.safetensors", "photomaker.safetensors", "textual_inversion.pt",
      "audio_encoder.pt", "v1-5-pruned.ckpt", "SD_XL_BASE.safetensors" }

DetectUrls ==
    { "", "https://example.com", "checkpoint",
      "https://huggingface.co/acme/base/resolve/main/base.safetensors" }

\* Disk space is counted in hundredths of a GiB: 1024 * 1024 * 1024 bytes are 100.
GiB == 100

SafetyMargin == 10 * GiB

\* The outcome of shutil.disk_usage: the free space, or a failure.
DiskUsages ==
    { [ok |-> FALSE, free |-> 0] } \cup
    { [ok |-> TRUE, free |-> f * GiB] : f \in { 0, 4, 5, 14, 15, 19, 20, 25, 29, 30, 40 } }

get_available_disk_space(usage) == IF usage.ok THEN usage.free ELSE 0 - 1

\* check_disk_space(required_bytes), on a disk whose usage query gives `usage`.
check_disk_space(required, usage) ==
    LET available == get_available_disk_space(usage)
        required_with_margin == required + SafetyMargin
    IN  IF available < 0 THEN TRUE
        ELSE IF available >= required_with_margin THEN TRUE
        ELSE IF available >= required THEN TRUE
        ELSE FALSE

DiskCalls ==
    { [fn |-> "check_disk_space", required |-> r, usage |-> u] :
        r \in { 0, 5 * GiB, 20 * GiB }, u \in DiskUsages }

DetectCalls ==
    { [fn |-> "detect_model_type", filename |-> f, url |-> u] :
        f \in DetectFilenames, u \in DetectUrls }

\* Weight names get_canonical_weight_str is called on.
CanonicalNames ==
    { "model.sft", "model.safetensors", "a.sft.sft", "x.SFT", ".sft", "", "sft", "sft.sft",
      "lora.ckpt", ManifestWeight, "flux1-dev.sft", "sft.safetensors" }

CanonicalCalls == { [fn |-> "get_canonical_weight_str", weight |-> w] : w \in CanonicalNames }

\* The workflows validate_weights_exist is called on.
WfShared ==
    Dict(("1" :> ApiNode("VAELoader", ("vae_name" :> Str(SharedWeight))))
         @@ ("2" :> ApiNode("LoraLoader", ("lora_name" :> Str(ManifestWeight)))))

WfNonexistent ==
    Dict(("1" :> ApiNode("CheckpointLoaderSimple",
                         ("ckpt_name" :> Str("nonexistent-model.safetensors"))))
         @@ ("2" :> ApiNode("VAELoader", ("vae_name" :> Str(SharedWeight)))))

WfLinkedName ==
    Dict(("1" :> ApiNode("CheckpointLoaderSimple", ("ckpt_name" :> List(<<Str("2"), Num(0)>>))))
         @@ ("2" :> ApiNode("LoraLoader", ("lora_name" :> Str(ManifestWeight)))))

ValidateWorkflows == { WfShared, WfNonexistent, WfLinkedName, WfEndToEnd, WfWeights }

\* The model files a disk can hold.
ValidateDisks ==
    SUBSET { "ComfyUI/models/vae/" \o SharedWeight, "ComfyUI/models/vae_approx/" \o SharedWeight,
             "ComfyUI/models/loras/" \o ManifestWeight }

ValidateCalls ==
    { [fn |-> "validate_weights_exist", workflow |-> w, skip_check |-> s, disk |-> d] :
        w \in ValidateWorkflows, s \in BOOLEAN, d \in ValidateDisks }

\* UI-form graphs with one well-formed loader node and one other node: a
\* node whose type is a number, whose widgets_values is a number, a dict or
\* a string, and a well-formed one.
UiGraph(other) ==
    Dict(("nodes" :> List(<< UiNode("CheckpointLoaderSimple", <<Str(CatalogWeight)>>), other >>)))

NodeTypeNumber == Dict(("type" :> Num(5)) @@ ("widgets_values" :> List(<<Str("a.ckpt")>>)))

NodeWidgetsNumber == Dict(("type" :> Str("LoraLoader")) @@ ("widgets_values" :> Num(7)))

NodeWidgetsDict ==
    Dict(("type" :> Str("LoraLoader")) @@ ("widgets_values" :> Dict(("0" :> Str(ManifestWeight)))))

NodeWidgetsDictScanned ==
    Dict(("type" :> Str("Foo")) @@ ("widgets_values" :> Dict(("big.gguf" :> Num(1)))))

NodeWidgetsString == Dict(("type" :> Str("LoraLoader")) @@ ("widgets_values" :> Str(ManifestWeight)))

\* An API-form node whose model inputs hold a URL, a data URI, an absolute
\* and a relative path, a video file and a model file.
WfFiltered ==
    Dict("1" :> ApiNode("CustomLoader",
                        ("ckpt_name" :> Str("https://h.co/dl/x.safetensors"))
                        @@ ("model" :> Str("data:application/octet-stream;base64,AAAA"))
                        @@ ("vae_name" :> Str("/models/vae/ae.safetensors"))
                        @@ ("lora_name" :> Str("./loras/s.safetensors"))
                        @@ ("filename" :> Str("clip.mp4"))
                        @@ ("model_name" :> Str("ok.safetensors"))))

\* create_txt2img_workflow("test.safetensors", ...): the loader, the sampler
\* and the SaveImage node.
WfTxt2Img ==
    Dict(("1" :> ApiNode("CheckpointLoaderSimple", ("ckpt_name" :> Str("test.safetensors"))))
         @@ ("5" :> ApiNode("KSampler",
                            ("sampler_name" :> Str("euler")) @@ ("scheduler" :> Str("normal"))
                            @@ ("model" :> List(<<Str("1"), Num(0)>>))))
         @@ ("7" :> ApiNode("SaveImage",
                            ("filename_prefix" :> Str("ComfyUI"))
                            @@ ("images" :> List(<<Str("6"), Num(0)>>)))))

AnalyzerWorkflows ==
    { UiGraph(n) : n \in { NodeTypeNumber, NodeWidgetsNumber, NodeWidgetsDict,
                           NodeWidgetsDictScanned, NodeWidgetsString,
                           UiNode("LoraLoader", <<Str(ManifestWeight)>>), Num(3) } }
    \cup { WfEndToEnd, WfRepos, WfUi, WfCore, WfWeights, EmptyDict, Str("text"),
           WfFiltered, WfTxt2Img }

AnalyzerCalls ==
    { [fn |-> "extract_weights_from_workflow", workflow |-> w] : w \in AnalyzerWorkflows }

\* The workflows of test_weight_loading.py and the ones above.
WfLoaders ==
    Dict(("1" :> ApiNode("CheckpointLoaderSimple", ("ckpt_name" :> Str("flux1-dev.safetensors"))))
         @@ ("2" :> ApiNode("CLIPLoader", ("clip_name" :> Str("clip_l.safetensors"))))
         @@ ("3" :> ApiNode("VAELoader", ("vae_name" :> Str("ae.safetensors"))))
         @@ ("4" :> ApiNode("LoraLoader", ("lora_name" :> Str("my_lora.safetensors")))))

WfDualClip ==
    Dict("1" :> ApiNode("DualCLIPLoader", ("clip_name1" :> Str("clip_l.safetensors"))
                                          @@ ("clip_name2" :> Str("clip_g.safetensors"))))

\* The same file under two loaders, names without a supported extension,
\* a name under a key its class does not read, and an empty name.
WfMixed ==
    Dict(("1" :> ApiNode("VAELoader", ("vae_name" :> Str("ae.safetensors"))))
         @@ ("2" :> ApiNode("VAELoader", ("vae_name" :> Str("ae.safetensors"))
                                         @@ ("ckpt_name" :> Str("other.ckpt"))))
         @@ ("3" :> ApiNode("LoraLoader", ("lora_name" :> Str("style.gguf"))))
         @@ ("4" :> ApiNode("UpscaleModelLoader", ("model_name" :> Str(""))))
         @@ ("5" :> ApiNode("KSampler", ("ckpt_name" :> Str("unused.pt"))))
         @@ ("6" :> ApiNode("GLIGENLoader", ("gligen_name" :> Str("g.bin")))))

RequiredWorkflows ==
    { EmptyDict, WfLoaders, WfDualClip, WfMixed, WfLinkedName, WfShared, WfNonexistent,
      WfEndToEnd, WfWeights }

RequiredCalls == { [fn |-> "extract_required_weights", workflow |-> w] : w \in RequiredWorkflows }

\* Entries of a model list: with a filename, with an empty one, without one.
CatalogEntries ==
    { [filename |-> f, url |-> "https://cat.example/files/" \o f, save_path |-> "checkpoints"] :
        f \in { "sd_cat.safetensors", "old_sd_cat.safetensors", "SD_Cat.safetensors",
                "cat.safetensors", "" } }
    \cup { [url |-> "https://cat.example/files/unnamed.bin", save_path |-> "checkpoints"] }

\* The model lists of up to two entries.
Catalogs ==
    { <<>> } \cup { <<a>> : a \in CatalogEntries }
    \cup { <<a, b>> : a \in CatalogEntries, b \in CatalogEntries }

LookupNames == { "sd_cat.safetensors", "cat.safetensors", NoSourceWeight }

LookupCalls ==
    { [fn |-> "find_model_in_comfyui_manager", models |-> c, filename |-> n] :
        c \in Catalogs, n \in LookupNames }

\* The same graphs for the function of the same name in the preloader.
PreloadAnalyzerCalls ==
    { [fn |-> "preload.extract_weights_from_workflow", workflow |-> w] : w \in AnalyzerWorkflows }

Calls ==
    DetectCalls \cup DiskCalls \cup CanonicalCalls \cup ValidateCalls \cup AnalyzerCalls
        \cup RequiredCalls \cup LookupCalls \cup PreloadAnalyzerCalls

FnInit ==
    /\ call \in Calls
    /\ ret = NotReturned
    /\ pre = NoPreload
    /\ conc = NoConcurrency
    /\ builder = NoBuilder
    /\ manager = NoManager
    /\ batch = <<>>
    /\ runs = 1
    /\ pc = "call"
    /\ exit_code = NoExit
    /\ all_node_types = {}
    /\ all_weights = {}
    /\ progress = EmptyProgress
    /\ repos_to_install = {}
    /\ todo_repos = {}
    /\ unresolved = <<>>
    /\ todo_weights = <<>>
    /\ cur = ""
    /\ dest = ""
    /\ attempt = 0
    /\ slept = <<>>
    /\ cache = "none"
    /\ dirs = [d \in RepoDests |-> "absent"]
    /\ files = [f \in FilePaths |-> "absent"]
    /\ progress_file = AbsentFile
    /\ ledger0 = EmptyProgress
    /\ events = {}
    /\ completed = {}
    /\ cleared = FALSE
    /\ failure = "none"
    /\ tried = <<>>
    /\ clone_calls = NoCloneCalls
    /\ persisted = EmptyProgress

DetectModelType ==
    /\ call.fn = "detect_model_type"
    /\ ~ret.done
    /\ ret' = Returned(detect_model_type(call.filename, call.url))
    /\ UNCHANGED <<call, pre, conc, builder, manager, installer_vars>>

CheckDiskSpace ==
    /\ call.fn = "check_disk_space"
    /\ ~ret.done
    /\ ret' = Returned(check_disk_space(call.required, call.usage))
    /\ UNCHANGED <<call, pre, conc, builder, manager, installer_vars>>

GetCanonicalWeightStr ==
    /\ call.fn = "get_canonical_weight_str"
    /\ ~ret.done
    /\ ret' = Returned(get_canonical_weight_str(call.weight))
    /\ UNCHANGED <<call, pre, conc, builder, manager, installer_vars>>

\* The call raised instead of returning.
Raised == [done |-> TRUE, value |-> [raised |-> TRUE]]

ValidateWeightsExist ==
    /\ call.fn = "validate_weights_exist"
    /\ ~ret.done
    /\ ret' = IF ~call.skip_check /\ RequiredWeightsRaises(call.workflow)
              THEN Raised
              ELSE Returned([raised |-> FALSE] @@
                            validate_weights_exist(call.workflow, call.skip_check, call.disk))
    /\ UNCHANGED <<call, pre, conc, builder, manager, installer_vars>>

ExtractWeightsFromWorkflow ==
    /\ call.fn = "extract_weights_from_workflow"
    /\ ~ret.done
    /\ ret' = Returned(extract_weights_from_workflow(call.workflow))
    /\ UNCHANGED <<call, pre, conc, builder, manager, installer_vars>>

ExtractRequiredWeights ==
    /\ call.fn = "extract_required_weights"
    /\ ~ret.done
    /\ ret' = IF RequiredWeightsRaises(call.workflow)
              THEN Raised
              ELSE Returned([raised |-> FALSE,
                             weights |-> extract_required_weights(call.workflow)])
    /\ UNCHANGED <<call, pre, conc, builder, manager, installer_vars>>

\* find_model_in_comfyui_manager on the list get_comfyui_manager_models
\* returned: the index of the entry it returns, 0 for None.
FindModelInComfyuiManager ==
    /\ call.fn = "find_model_in_comfyui_manager"
    /\ ~ret.done
    /\ ret' = Returned(find_model_in_comfyui_manager(call.models, call.filename))
    /\ UNCHANGED <<call, pre, conc, builder, manager, installer_vars>>

PreloadExtractWeightsFromWorkflow ==
    /\ call.fn = "preload.extract_weights_from_workflow"
    /\ ~ret.done
    /\ ret' = Returned(preload_extract_weights_from_workflow(call.workflow))
    /\ UNCHANGED <<call, pre, conc, builder, manager, installer_vars>>

FnNext ==
    \/ PreloadExtractWeightsFromWorkflow
    \/ FindModelInComfyuiManager
    \/ ExtractRequiredWeights
    \/ DetectModelType
    \/ CheckDiskSpace
    \/ GetCanonicalWeightStr
    \/ ValidateWeightsExist
    \/ ExtractWeightsFromWorkflow

FnSpec == FnInit /\ [][FnNext]_vars

(***************************************************************************)
(* preload_all_workflows, the build-time preloader                         *)
(***************************************************************************)

\* weight_size_estimates, in declaration order, in hundredths of a GiB.
weight_size_estimates ==
    << <<"flux1-dev.safetensors", 2400>>, <<"flux1-schnell.safetensors", 1200>>,
       <<"clip_l.safetensors", 75>>, <<"t5xxl_fp8_e4m3fn.safetensors", 500>>,
       <<"ae.safetensors", 32>>, <<"sd_xl_base_1.0.safetensors", 694>>,
       <<"sd_xl_refiner_1.0.safetensors", 694>>, <<"v1-5-pruned-emaonly.safetensors", 420>>,
       <<"LTX-2", 1000>>, <<"LTX-2-Foley", 200>>, <<"LTX-2-IC-Control", 150>>,
       <<"LTX2/LTX2IV", 1000>> >>

\* The estimate of one weight: the exact entry, else the first entry whose
\* name contains or is contained in the weight's, else a default by keyword.
EstimateOf(weight) ==
    LET T == weight_size_estimates
        exact == { i \in DOMAIN T : T[i][1] = weight }
        partial == { i \in DOMAIN T : \/ Contains(Lower(weight), Lower(T[i][1]))
                                      \/ Contains(Lower(T[i][1]), Lower(weight)) }
        First(I) == CHOOSE i \in I : \A j \in I : i <= j
    IN  IF exact # {} THEN T[First(exact)][2]
        ELSE IF partial # {} THEN T[First(partial)][2]
        ELSE IF Contains(Lower(weight), "foley") \/ Contains(Lower(weight), "audio") THEN 200
        ELSE IF Contains(Lower(weight), "control") THEN 150
        ELSE IF Contains(Lower(weight), "vae") \/ Contains(Lower(weight), "clip") THEN 50
        ELSE 500

\* estimate_weight_sizes(weights)["total_bytes"]
RECURSIVE estimate_weight_sizes(_)
estimate_weight_sizes(weights) ==
    IF weights = {} THEN 0
    ELSE LET w == CHOOSE x \in weights : TRUE
         IN  EstimateOf(w) + estimate_weight_sizes(weights \ {w})

\* ComfyUI._install_mapped_missing_nodes: the repositories it clones for a
\* set of class names, the engine's own upstream left out.
MappedMissingRepos(classes) ==
    { class_repo_map[c] :
        c \in { m \in classes \ AvailablePool :
                  /\ m \in DOMAIN class_repo_map
                  /\ RStripSlash(class_repo_map[m]) \notin
                         { "https://github.com/comfyanonymous/ComfyUI",
                           "https://github.com/Comfy-Org/ComfyUI" } } }

\* What the loop over workflows.json collects: all_weights, all_custom_nodes
\* and whether a workflow failed to load.
PreloadWeights == { "flux1-dev.safetensors", ManifestWeight, NoSourceWeight }

PreloadNodeSets == { {}, { "NodeA1", "NodeA2" }, { "KSampler", "NodeB", "ComfyCore" } }

Collected ==
    { [all_weights |-> w, all_custom_nodes |-> n, failed_workflows |-> f] :
        w \in SUBSET PreloadWeights, n \in PreloadNodeSets, f \in { {}, { "broken" } } }

PreloadStart(has_downloader, usage) ==
    [pc |-> "collect", all_weights |-> {}, all_custom_nodes |-> {}, failed_workflows |-> {},
     has_downloader |-> has_downloader, usage |-> usage, disk |-> "unchecked",
     todo |-> <<>>, transfers |-> <<>>, failed_weights |-> {}, result |-> NoExit]

PreloadInit ==
    /\ call = NoCall
    /\ ret = NotReturned
    /\ \E has_downloader \in BOOLEAN, usage \in DiskUsages :
         pre = PreloadStart(has_downloader, usage)
    /\ conc = NoConcurrency
    /\ builder = NoBuilder
    /\ manager = NoManager
    /\ batch = <<>>
    /\ runs = 1
    /\ pc = "preload"
    /\ exit_code = NoExit
    /\ all_node_types = {}
    /\ all_weights = {}
    /\ progress = EmptyProgress
    /\ repos_to_install = {}
    /\ todo_repos = {}
    /\ unresolved = <<>>
    /\ todo_weights = <<>>
    /\ cur = ""
    /\ dest = ""
    /\ attempt = 0
    /\ slept = <<>>
    /\ cache = "none"
    /\ dirs = [d \in RepoDests |-> "absent"]
    /\ files = [f \in FilePaths |-> "absent"]
    /\ progress_file = AbsentFile
    /\ ledger0 = EmptyProgress
    /\ events = {}
    /\ completed = {}
    /\ cleared = FALSE
    /\ failure = "none"
    /\ tried = <<>>
    /\ clone_calls = NoCloneCalls
    /\ persisted = EmptyProgress

PreloadReturn(p, result) == [p EXCEPT !.pc = "returned", !.result = result]

\* The loop over workflows.json, and the two returns around it: no
\* workflows.json, or no weight in any workflow.
PreloadCollect ==
    /\ pre.pc = "collect"
    /\ \/ pre' = PreloadReturn(pre, 0)
       \/ \E c \in Collected :
            LET p == [pre EXCEPT !.all_weights = c.all_weights,
                                 !.all_custom_nodes = c.all_custom_nodes,
                                 !.failed_workflows = c.failed_workflows]
            IN  pre' = IF c.all_weights = {} THEN PreloadReturn(p, 0)
                       ELSE [p EXCEPT !.pc = "install_nodes"]
    /\ UNCHANGED <<call, ret, conc, builder, manager, installer_vars>>

\* The custom nodes of the workflows are installed when the downloader could
\* be imported: every mapped repository is cloned, in the order the set
\* gives. A missing module of the engine is put off to run time, any other
\* error fails the build.
PreloadInstallNodes ==
    /\ pre.pc = "install_nodes"
    /\ IF pre.all_custom_nodes # {} /\ pre.has_downloader
       THEN \E outcome \in { "installed", "module_not_found", "error" } :
              IF outcome = "installed"
              THEN \E order \in Orders(MappedMissingRepos(pre.all_custom_nodes)) :
                     pre' = [pre EXCEPT
                               !.pc = "check_disk_space",
                               !.transfers = pre.transfers \o
                                   [i \in DOMAIN order |-> <<"clone", order[i]>>]]
              ELSE IF outcome = "module_not_found"
              THEN pre' = [pre EXCEPT !.pc = "check_disk_space"]
              ELSE pre' = PreloadReturn(pre, 1)
       ELSE pre' = [pre EXCEPT !.pc = "check_disk_space"]
    /\ UNCHANGED <<call, ret, conc, builder, manager, installer_vars>>

\* Without the downloader nothing is downloaded. With it the sizes are
\* estimated and the disk space is checked before the downloads.
PreloadCheckDiskSpace ==
    /\ pre.pc = "check_disk_space"
    /\ IF ~pre.has_downloader
       THEN pre' = PreloadReturn(pre, 0)
       ELSE IF ~check_disk_space(estimate_weight_sizes(pre.all_weights), pre.usage)
       THEN pre' = [PreloadReturn(pre, 1) EXCEPT !.disk = "insufficient"]
       ELSE pre' = [pre EXCEPT !.pc = "download", !.disk = "ok",
                               !.todo = Sorted(pre.all_weights)]
    /\ UNCHANGED <<call, ret, conc, builder, manager, installer_vars>>

\* One pass of the download loop: downloader.download_weights(weight); a
\* weight the manifest lacks, or whose download fails, is only recorded.
PreloadDownload ==
    /\ pre.pc = "download"
    /\ pre.todo # <<>>
    /\ LET weight == Head(pre.todo)
       IN  IF get_canonical_weight_str(weight) \notin DOMAIN weights_map
           THEN pre' = [pre EXCEPT !.todo = Tail(pre.todo),
                                   !.failed_weights = pre.failed_weights \cup {weight}]
           ELSE \E ok \in BOOLEAN :
                  pre' = [pre EXCEPT
                            !.todo = Tail(pre.todo),
                            !.transfers = Append(pre.transfers, <<"download", weight>>),
                            !.failed_weights =
                                IF ok THEN pre.failed_weights
                                ELSE pre.failed_weights \cup {weight}]
    /\ UNCHANGED <<call, ret, conc, builder, manager, installer_vars>>

\* The summary and the result of the build.
PreloadSummary ==
    /\ pre.pc = "download"
    /\ pre.todo = <<>>
    /\ pre' = PreloadReturn(pre, IF pre.failed_workflows # {} THEN 1 ELSE 0)
    /\ UNCHANGED <<call, ret, conc, builder, manager, installer_vars>>

PreloadNext ==
    \/ PreloadCollect
    \/ PreloadInstallNodes
    \/ PreloadCheckDiskSpace
    \/ PreloadDownload
    \/ PreloadSummary

PreloadSpec == PreloadInit /\ [][PreloadNext]_vars

(***************************************************************************)
(* Two installer processes started on the same directory: each runs        *)
(* install_custom_nodes and download_weights on its own required set, and  *)
(* both share .installation_progress.json.                                 *)
(***************************************************************************)

Procs == { 1, 2 }

\* What a process requires: the repositories of its missing classes and its weights.
Requirements ==
    { [repos |-> r, weights |-> w] :
        r \in { {}, { RepoA }, { RepoB }, { RepoA, RepoB } },
        w \in { {}, { ManifestWeight }, { UrlWeight } } }

ProcStart(required) ==
    [pc |-> "install_custom_nodes", required |-> required, progress |-> EmptyProgress,
     todo_repos |-> {}, todo_weights |-> <<>>, cur |-> "", saved |-> {}]

ConcInit ==
    /\ call = NoCall
    /\ ret = NotReturned
    /\ pre = NoPreload
    /\ \E r1 \in Requirements, r2 \in Requirements :
         conc = [file |-> AbsentFile, procs |-> (1 :> ProcStart(r1)) @@ (2 :> ProcStart(r2))]
    /\ batch = <<>>
    /\ runs = 1
    /\ pc = "concurrent"
    /\ builder = NoBuilder
    /\ manager = NoManager
    /\ exit_code = NoExit
    /\ all_node_types = {}
    /\ all_weights = {}
    /\ progress = EmptyProgress
    /\ repos_to_install = {}
    /\ todo_repos = {}
    /\ unresolved = <<>>
    /\ todo_weights = <<>>
    /\ cur = ""
    /\ dest = ""
    /\ attempt = 0
    /\ slept = <<>>
    /\ cache = "none"
    /\ dirs = [d \in RepoDests |-> "absent"]
    /\ files = [f \in FilePaths |-> "absent"]
    /\ progress_file = AbsentFile
    /\ ledger0 = EmptyProgress
    /\ events = {}
    /\ completed = {}
    /\ cleared = FALSE
    /\ failure = "none"
    /\ tried = <<>>
    /\ clone_calls = NoCloneCalls
    /\ persisted = EmptyProgress

\* The step of process p: its record and the progress file become q and f.
ProcStep(p, q, f) ==
    /\ conc' = [file |-> f, procs |-> [conc.procs EXCEPT ![p] = q]]
    /\ UNCHANGED <<call, ret, pre, builder, manager, installer_vars>>

\* install_custom_nodes: nothing missing returns at once, else load_progress.
ConcInstallCustomNodes(p) ==
    LET me == conc.procs[p]
    IN  /\ me.pc = "install_custom_nodes"
        /\ ProcStep(p,
                    IF me.required.repos = {}
                    THEN [me EXCEPT !.pc = "download_weights"]
                    ELSE [me EXCEPT !.pc = "repo_loop",
                                    !.progress = load_progress(conc.file),
                                    !.todo_repos = me.required.repos],
                    conc.file)

\* One visit of the loop over repos_to_install: skip a URL of the loaded
\* ledger, else clone it; the loop over, go on to download_weights.
ConcRepoVisit(p) ==
    LET me == conc.procs[p]
    IN  /\ me.pc = "repo_loop"
        /\ IF me.todo_repos = {}
           THEN ProcStep(p, [me EXCEPT !.pc = "download_weights"], conc.file)
           ELSE \E repo_url \in me.todo_repos :
                  ProcStep(p,
                           IF RepoInLedger(repo_url, me.progress)
                           THEN [me EXCEPT !.todo_repos = @ \ {repo_url}]
                           ELSE [me EXCEPT !.todo_repos = @ \ {repo_url},
                                           !.cur = repo_url, !.pc = "cloned"],
                           conc.file)

\* download_weights: no weights returns at once, else load_progress.
ConcDownloadWeights(p) ==
    LET me == conc.procs[p]
    IN  /\ me.pc = "download_weights"
        /\ ProcStep(p,
                    IF me.required.weights = {}
                    THEN [me EXCEPT !.pc = "done"]
                    ELSE [me EXCEPT !.pc = "weight_loop",
                                    !.progress = load_progress(conc.file),
                                    !.todo_weights = Sorted(me.required.weights)],
                    conc.file)

\* One visit of the loop over sorted(weights).
ConcWeightVisit(p) ==
    LET me == conc.procs[p]
    IN  /\ me.pc = "weight_loop"
        /\ IF me.todo_weights = <<>>
           THEN ProcStep(p, [me EXCEPT !.pc = "done"], conc.file)
           ELSE LET weight == Head(me.todo_weights)
                IN  ProcStep(p,
                             IF WeightInLedger(weight, me.progress)
                             THEN [me EXCEPT !.todo_weights = Tail(@)]
                             ELSE [me EXCEPT !.todo_weights = Tail(@),
                                             !.cur = weight, !.pc = "downloaded"],
                             conc.file)

\* The item is added to the progress dict of the process and save_progress
\* opens the file for writing, which truncates it.
ConcSaveOpen(p) ==
    LET me == conc.procs[p]
    IN  /\ me.pc \in { "cloned", "downloaded" }
        /\ ProcStep(p,
                    IF me.pc = "cloned"
                    THEN [me EXCEPT !.progress.installed_repos = @ \cup {me.cur},
                                    !.pc = "saving_repo"]
                    ELSE [me EXCEPT !.progress.downloaded_weights = @ \cup {me.cur},
                                    !.pc = "saving_weight"],
                    TruncatedFile)

\* json.dump and close: the file holds the progress dict of the process.
ConcSaveWrite(p) ==
    LET me == conc.procs[p]
    IN  /\ me.pc \in { "saving_repo", "saving_weight" }
        /\ ProcStep(p,
                    [me EXCEPT !.saved = @ \cup {me.cur},
                               !.pc = IF me.pc = "saving_repo" THEN "repo_loop"
                                      ELSE "weight_loop"],
                    WrittenFile(me.progress))

ConcNext ==
    \E p \in Procs :
        \/ ConcInstallCustomNodes(p)
        \/ ConcRepoVisit(p)
        \/ ConcDownloadWeights(p)
        \/ ConcWeightVisit(p)
        \/ ConcSaveOpen(p)
        \/ ConcSaveWrite(p)

ConcSpec == ConcInit /\ [][ConcNext]_vars

(***************************************************************************)
(* WorkflowBuilder and WorkflowValidator of workflow_helpers.py            *)
(***************************************************************************)

\* The installer at rest, while another component is studied.
InstallerAtRest(at) ==
    /\ batch = <<>>
    /\ runs = 1
    /\ pc = at
    /\ exit_code = NoExit
    /\ all_node_types = {}
    /\ all_weights = {}
    /\ progress = EmptyProgress
    /\ repos_to_install = {}
    /\ todo_repos = {}
    /\ unresolved = <<>>
    /\ todo_weights = <<>>
    /\ cur = ""
    /\ dest = ""
    /\ attempt = 0
    /\ slept = <<>>
    /\ cache = "none"
    /\ dirs = [d \in RepoDests |-> "absent"]
    /\ files = [f \in FilePaths |-> "absent"]
    /\ progress_file = AbsentFile
    /\ ledger0 = EmptyProgress
    /\ events = {}
    /\ completed = {}
    /\ cleared = FALSE
    /\ failure = "none"
    /\ tried = <<>>
    /\ clone_calls = NoCloneCalls
    /\ persisted = EmptyProgress

\* The calls made on one builder.
MaxCalls == 3

\* str(n) of a node counter
NodeId(n) ==
    LET digit(d) == SubSeq("0123456789", d + 1, d + 1)
    IN  IF n < 10 THEN digit(n) ELSE digit(n \div 10) \o digit(n % 10)

BuilderClasses == { "KSampler", "VAEDecode" }

\* The dicts a caller passes as inputs, and the titles.
BuilderInputs == { EmptyDict, Dict("seed" :> Num(1)) }

BuilderTitles == { "", "Sampler" }

\* The node ids a caller names: the ones add_node can have returned and one
\* that no node has.
NamedIds == { NodeId(n) : n \in 1..2 } \cup { "9" }

InputNames == { "model", "seed" }

\* node_counter after add_node
NodeCounterKept(n) == n

NodeCounterNext(n) == n + 1

\* WorkflowBuilder(): the workflow maps a node id to its class_type, its
\* title and the dict object that is its inputs; objects holds the dict
\* objects, which the caller can still hold and pass again. calls and last
\* record the calls made.
BuilderInit ==
    /\ call = NoCall
    /\ ret = NotReturned
    /\ pre = NoPreload
    /\ conc = NoConcurrency
    /\ manager = NoManager
    /\ builder = [node_counter |-> 1, workflow |-> <<>>, objects |-> <<>>,
                  calls |-> <<>>, last |-> [op |-> "init"]]
    /\ InstallerAtRest("builder")

\* add_node(class_type, inputs, title) with a dict the caller passes: a new
\* one (object = 0) or one passed before.
add_node(class_type, object, inputs, title) ==
    LET node_id == NodeId(builder.node_counter)
        objects == IF object = 0 THEN Append(builder.objects, inputs) ELSE builder.objects
        ref     == IF object = 0 THEN Len(objects) ELSE object
        node    == [class_type |-> class_type, inputs |-> ref, title |-> title]
    IN  /\ Len(builder.calls) < MaxCalls
        /\ builder' = [node_counter |-> NodeCounterNext(builder.node_counter),
                       workflow |-> (node_id :> node) @@ builder.workflow,
                       objects |-> objects,
                       calls |-> Append(builder.calls,
                                        [id |-> node_id, class_type |-> class_type]),
                       last |-> [op |-> "add_node", id |-> node_id]]
        /\ UNCHANGED <<call, ret, pre, conc, manager, installer_vars>>

AddNode ==
    \E class_type \in BuilderClasses, title \in BuilderTitles :
        \/ \E inputs \in BuilderInputs : add_node(class_type, 0, inputs, title)
        \/ \E object \in 1..Len(builder.objects) :
               add_node(class_type, object, builder.objects[object], title)

\* connect_nodes(from_node, to_node, input_name, output_index)
connect_nodes(from_node, to_node, input_name, output_index) ==
    /\ Len(builder.calls) < MaxCalls
    /\ builder' =
         [builder EXCEPT
            !.objects =
                IF to_node \in DOMAIN builder.workflow
                THEN [@ EXCEPT ![builder.workflow[to_node].inputs] =
                        Dict((input_name :> List(<<Str(from_node), Num(output_index)>>))
                             @@ @.v)]
                ELSE @,
            !.calls = Append(@, [id |-> "", class_type |-> ""]),
            !.last = [op |-> "connect_nodes", to_node |-> to_node]]
    /\ UNCHANGED <<call, ret, pre, conc, manager, installer_vars>>

ConnectNodes ==
    \E from_node \in NamedIds, to_node \in NamedIds, input_name \in InputNames,
       output_index \in { 0, 1 } :
        connect_nodes(from_node, to_node, input_name, output_index)

\* get_workflow(): the workflow dict, each node with its inputs object
get_workflow ==
    Dict([id \in DOMAIN builder.workflow |->
            LET node == builder.workflow[id]
            IN  Dict(("inputs" :> builder.objects[node.inputs])
                     @@ ("class_type" :> Str(node.class_type))
                     @@ (IF node.title # ""
                         THEN "_meta" :> Dict("title" :> Str(node.title))
                         ELSE <<>>))])

\* WorkflowValidator.validate_structure(workflow): (is_valid, error)
validate_structure(workflow) ==
    IF ~IsDict(workflow) THEN <<FALSE, "Workflow must be a dictionary">>
    ELSE IF \E id \in DOMAIN workflow.v : ~IsDict(workflow.v[id])
         THEN <<FALSE, "Node is not a dictionary">>
    ELSE IF \E id \in DOMAIN workflow.v : ~HasKey(workflow.v[id], "class_type")
         THEN <<FALSE, "Node missing 'class_type'">>
    ELSE IF \E id \in DOMAIN workflow.v : ~HasKey(workflow.v[id], "inputs")
         THEN <<FALSE, "Node missing 'inputs'">>
    ELSE IF \E id \in DOMAIN workflow.v : ~IsDict(workflow.v[id].v["inputs"])
         THEN <<FALSE, "Node 'inputs' is not a dictionary">>
    ELSE <<TRUE, "None">>

BuilderNext ==
    \/ AddNode
    \/ ConnectNodes

BuilderSpec == BuilderInit /\ [][BuilderNext]_vars

(***************************************************************************)
(* get_comfyui_manager_models: the catalog cache and the clock             *)
(***************************************************************************)

COMFYUI_MANAGER_CACHE_DURATION == 3600

\* The lookups made in one process.
MaxLookups == 3

\* The seconds that pass between two lookups, and the seconds a request
\* takes (the timeout is 30).
Gaps == { 0, 3570, 3599, 3600 }

RequestSeconds == { 0, 30 }

\* What a request ends with: the 'models' of the response, or an exception.
Responses ==
    { [ok |-> FALSE, models |-> <<>>], [ok |-> TRUE, models |-> <<>>],
      [ok |-> TRUE, models |-> <<"v1">>] }

\* _comfyui_manager_models_cache: None, or a list
NoCache == [set |-> FALSE, models |-> <<>>]

Cached(models) == [set |-> TRUE, models |-> models]

\* The test that returns the cached list.
CacheFreshInclusive(current_time, models_cache, cache_time) ==
    models_cache.set /\ current_time - cache_time <= COMFYUI_MANAGER_CACHE_DURATION

CacheFresh(current_time, models_cache, cache_time) ==
    models_cache.set /\ current_time - cache_time < COMFYUI_MANAGER_CACHE_DURATION

\* The module is imported: no cache, timestamp 0. now is the clock,
\* fetched_at the time the last successful response arrived, before the
\* globals as the lookup under way (or the last one) found them.
ManagerInit ==
    /\ call = NoCall
    /\ ret = NotReturned
    /\ pre = NoPreload
    /\ conc = NoConcurrency
    /\ builder = NoBuilder
    /\ manager = [pc |-> "idle", now |-> 0, models_cache |-> NoCache, cache_time |-> 0,
                  fetched_at |-> 0, current_time |-> 0, attempt |-> 0, requests |-> 0,
                  lookups |-> 0, returned |-> "",  value |-> <<>>,
                  before |-> [models_cache |-> NoCache, cache_time |-> 0, fetched_at |-> 0]]
    /\ InstallerAtRest("manager")

\* A call of get_comfyui_manager_models, some time after the last: read the
\* clock, return the cached list when it is fresh, else start fetching.
GetComfyuiManagerModels ==
    /\ manager.pc = "idle"
    /\ manager.lookups < MaxLookups
    /\ \E gap \in Gaps :
         LET current_time == manager.now + gap
             fresh == CacheFresh(current_time, manager.models_cache, manager.cache_time)
         IN  manager' = [manager EXCEPT
                           !.now = current_time,
                           !.current_time = current_time,
                           !.lookups = @ + 1,
                           !.attempt = 0,
                           !.requests = 0,
                           !.before = [models_cache |-> manager.models_cache,
                                       cache_time |-> manager.cache_time,
                                       fetched_at |-> manager.fetched_at],
                           !.pc = IF fresh THEN "idle" ELSE "fetching",
                           !.returned = IF fresh THEN "cached" ELSE "",
                           !.value = IF fresh THEN manager.models_cache.models ELSE <<>>]
    /\ UNCHANGED <<call, ret, pre, conc, builder, installer_vars>>

\* One pass of the loop over range(3): the request, then on success the
\* globals are set and the list returned, on failure the sleep of
\* 1.0 * 2 ** attempt seconds, or after the third the return of [].
FetchAttempt ==
    /\ manager.pc = "fetching"
    /\ \E took \in RequestSeconds, response \in Responses :
         LET arrived == manager.now + took
         IN  manager' =
               IF response.ok
               THEN [manager EXCEPT
                       !.now = arrived,
                       !.requests = @ + 1,
                       !.models_cache = Cached(response.models),
                       !.cache_time = manager.current_time,
                       !.fetched_at = arrived,
                       !.pc = "idle",
                       !.returned = "fetched",
                       !.value = response.models]
               ELSE IF manager.attempt < 2
               THEN [manager EXCEPT
                       !.now = arrived + 2 ^ manager.attempt,
                       !.requests = @ + 1,
                       !.attempt = @ + 1]
               ELSE [manager EXCEPT
                       !.now = arrived,
                       !.requests = @ + 1,
                       !.pc = "idle",
                       !.returned = "failed",
                       !.value = <<>>]
    /\ UNCHANGED <<call, ret, pre, conc, builder, installer_vars>>

ManagerNext ==
    \/ GetComfyuiManagerModels
    \/ FetchAttempt

ManagerSpec == ManagerInit /\ [][ManagerNext]_vars

(***************************************************************************)
(* The properties of the installer.                                        *)
(***************************************************************************)

\* The progress file as a process starting now would read it.
Persisted == load_progress(progress_file)

\* A weight reference that is a fully-qualified URL.
UrlLike(w) == StartsWith(Lower(w), "http://") \/ StartsWith(Lower(w), "https://")

\* The destinations of the catalog entries whose filename matches a name.
CatalogPaths(w) ==
    { DownloadDest(Catalog[i].url, Catalog[i].save_path) :
        i \in { j \in DOMAIN Catalog :
                  Contains(Lower(Catalog[j].filename), Lower(w))
                  \/ Contains(Lower(w), Lower(Catalog[j].filename)) } }

\* The paths a weight can be stored at: a URL at the path derived from it,
\* any other name at its manifest destination or at a matching catalog
\* entry's destination.
WeightPaths(w) ==
    IF UrlLike(w) THEN { DownloadDest(w, "") }
    ELSE (IF get_canonical_weight_str(w) \in DOMAIN weights_map
          THEN { ManifestDest(w) } ELSE {})
         \cup CatalogPaths(w)

\* A name no source resolves: not a URL, not in the manifest, not in the catalog.
NoSource(w) == ~UrlLike(w) /\ WeightPaths(w) = {}

RepoInstalled(r) == dirs[RepoDest(r)] = "complete"

WeightInstalled(w) == \E path \in WeightPaths(w) : files[path] = "complete"

\* The items of the events this process has issued.
Touched == { e[2] : e \in events }

\* The process is at work on the weight cur.
AtWeight ==
    pc \in { "manifest", "catalog", "catalog_fetch", "download_attempt", "downloading",
             "downloaded", "saving_weight" }

\* C1: a process that starts on a progress file listing some of the required
\* items clones no repository of installed_repos, looks up and downloads no
\* weight of downloaded_weights, and when it ends with status 0 every required
\* item the file did not list is installed.
C1_ResumeSkipsLedgerInstallsRest ==
    ledger0 # EmptyProgress =>
        /\ \A r \in ledger0.installed_repos : <<"clone", r>> \notin events
        /\ \A w \in ledger0.downloaded_weights : w \notin Touched
        /\ (pc = "exited" /\ exit_code = 0) =>
               /\ \A r \in repos_to_install \ ledger0.installed_repos : RepoInstalled(r)
               /\ \A w \in all_weights \ ledger0.downloaded_weights : WeightInstalled(w)

\* C2: the progress file holds every finished item before the next transfer
\* starts, and when the process is killed at most one item this process
\* finished is missing from the persisted ledger.
C2_KilledLosesAtMostOne ==
    /\ pc \in { "clone_attempt", "cloning", "manifest", "catalog", "catalog_fetch",
                "download_attempt", "downloading" } =>
           completed \subseteq (Persisted.installed_repos \cup Persisted.downloaded_weights)
    /\ pc = "killed" =>
           Cardinality(completed \ (Persisted.installed_repos
                                    \cup Persisted.downloaded_weights)) <= 1

\* C3: every repository URL of the persisted ledger has a fully cloned
\* directory and every weight of it has a fully downloaded file, also after a
\* kill in the middle of a transfer and the run that resumes it.
C3_LedgerHasNoFalsePositive ==
    /\ \A r \in Persisted.installed_repos : RepoInstalled(r)
    /\ \A w \in Persisted.downloaded_weights : WeightInstalled(w)

\* C4: clear_progress runs only in a process in which every required
\* repository and weight completed and nothing failed fatally; a process that
\* gave up on a clone, an unresolved class or a weight has not called it and
\* leaves the progress file as it last saved it.
C4_ClearOnlyAfterAllCompleted ==
    /\ cleared =>
           /\ failure = "none"
           /\ unresolved = <<>>
           /\ \A r \in repos_to_install : RepoInstalled(r)
           /\ \A w \in all_weights : WeightInstalled(w)
    /\ failure \in { "unresolved", "clone", "weight" } =>
           /\ ~cleared
           /\ Persisted = progress
           /\ completed # {} => progress_file.st = "written"

\* C5: the process exits 0 only on full success, every required repository
\* and weight installed and no class unresolved, and it exits non-zero
\* whenever a class is unresolved or a clone or a weight download failed.
C5_ExitZeroOnlyOnFullSuccess ==
    pc = "exited" =>
        /\ exit_code = 0 =>
               /\ failure = "none"
               /\ unresolved = <<>>
               /\ \A r \in repos_to_install : RepoInstalled(r)
               /\ \A w \in all_weights : WeightInstalled(w)
        /\ (unresolved # <<>> \/ failure \in { "unresolved", "clone", "weight" }) =>
               exit_code # 0

\* C6: for the workflow with CheckpointLoaderSimple ckpt_name "model.sft" and
\* the unmapped class FooCustomNode, the weight set is {"model.safetensors"},
\* the unresolved list is <<"FooCustomNode">> and the process exits non-zero.
C6_EndToEndScenario ==
    (batch = <<Parsed(WfEndToEnd)>> /\ pc = "exited" /\ failure # "interrupted") =>
        /\ all_weights = { "model.safetensors" }
        /\ unresolved = << "FooCustomNode" >>
        /\ exit_code # 0

C8_ManifestBeforeUrlBeforeCatalog ==
    \A i \in DOMAIN tried :
        tried[i] \in { "url", "catalog" } => \E j \in 1 .. (i - 1) : tried[j] = "manifest"

\* C8: a weight that is a URL is downloaded directly, with neither the
\* manifest nor the catalog consulted; any other weight tries the manifest
\* first and the catalog only after the manifest did not resolve it, and is
\* fetched by the fetch tool only through the catalog.
C8_UrlDirectElseManifestThenCatalog ==
    (AtWeight \/ failure = "weight") =>
        IF UrlLike(cur)
        THEN /\ tried = << "url" >>
             /\ <<"manifest", cur>> \notin events
             /\ <<"catalog_fetch", cur>> \notin events
        ELSE /\ tried \in { <<>>, << "manifest" >>, << "manifest", "catalog" >> }
             /\ pc = "manifest" => tried = <<>>
             /\ pc = "catalog" => tried = << "manifest" >>
             /\ pc \in { "catalog_fetch", "download_attempt", "downloading" } =>
                    tried = << "manifest", "catalog" >>
             /\ (pc = "downloaded" /\ tried = << "manifest" >>) =>
                    get_canonical_weight_str(cur) \in DOMAIN weights_map

C8_CatalogAfterManifestMissed ==
    pc = "downloaded" /\ tried = << "manifest", "catalog" >> /\ cur \in completed

\* C9: a weight no source resolves is fatal: it is never added to
\* downloaded_weights, the process exits non-zero, and no weight after the
\* failed one in the sorted order is looked up or downloaded.
C9_NoSourceIsFatal ==
    /\ \A w \in progress.downloaded_weights \cup Persisted.downloaded_weights : ~NoSource(w)
    /\ (pc = "exited" /\ exit_code = 0) => \A w \in all_weights : ~NoSource(w)
    /\ failure = "weight" =>
           /\ exit_code = 1
           /\ cur \notin progress.downloaded_weights
           /\ \A i \in DOMAIN todo_weights : todo_weights[i] \notin Touched

C9_FailedWithLaterWeightPending ==
    failure = "weight" /\ NoSource(cur) /\ todo_weights # <<>>

\* C10 as stated: while a weight's file exists at its destination the process
\* issues no network call for it, neither a catalog fetch nor a file download.
C10_ExistingFileNoNetworkCall ==
    /\ pc = "catalog_fetch" => \A path \in CatalogPaths(cur) : files[path] = "absent"
    /\ pc = "download_attempt" => files[dest] = "absent"

\* C10: the fetch tool is never started on a destination file that exists,
\* for a URL weight and for a catalog weight alike, and for a URL weight no
\* catalog fetch is issued either.
C10_ExistingFileNotDownloaded ==
    /\ pc = "download_attempt" => files[dest] = "absent"
    /\ (AtWeight /\ UrlLike(cur)) => <<"catalog_fetch", cur>> \notin events
    /\ (pc = "downloaded" /\ cur \notin completed) =>
           /\ <<"download", cur>> \notin events
           /\ files[dest] # "absent"

C10_CatalogWeightSkipped ==
    /\ pc = "downloaded"
    /\ tried = << "manifest", "catalog" >>
    /\ <<"download", cur>> \notin events
    /\ files[dest] # "absent"

C12_DetectModelTypeExamples ==
    (call.fn = "detect_model_type" /\ ret.done /\ call.url = "") =>
        /\ call.filename = "my_lora_v2.safetensors" => ret.value = "loras"
        /\ call.filename = "sd_xl_base_1.0.safetensors" => ret.value = "checkpoints"
        /\ call.filename = "controlnet_canny.pth" => ret.value = "controlnet"

\* C13: check_disk_space(required) returns true exactly when the available
\* space is at least required plus the fixed 10 GiB margin (5 GiB free for
\* 20 GiB required gives false, 40 GiB free for 20 GiB gives true), and false
\* for every available space below required plus the margin.
C13_DiskCheckExactlyWithMargin ==
    (call.fn = "check_disk_space" /\ ret.done) =>
        (ret.value <=> (get_available_disk_space(call.usage) >= call.required + 10 * 100))

\* C14: insufficient disk space is fatal before any transfer begins: no
\* repository clone and no weight download has started unless the disk-space
\* check has run and returned ok, and when the check returns false the run
\* returns a non-zero result without having started any transfer.
C14_NoTransferBeforeDiskCheck ==
    /\ pre.transfers # <<>> => pre.disk = "ok"
    /\ pre.disk = "insufficient" => (pre.result # 0 /\ pre.result # NoExit /\ pre.transfers = <<>>)

C16_AnalyzerExcludesBaseNames == all_node_types \cap BASE_COMFY_NODES = {}

\* C16, amended: extract_nodes_from_workflow returns the base names too; it
\* is install_custom_nodes that removes them before resolution, so no base
\* name is reported as unresolved, and workflows of base classes only give
\* no repository to install and no unresolved class.
C16_BaseNamesFilteredBeforeResolution ==
    /\ \A i \in DOMAIN unresolved : unresolved[i] \notin BASE_COMFY_NODES
    /\ all_node_types \subseteq BASE_COMFY_NODES =>
           (repos_to_install = {} /\ unresolved = <<>> /\ failure # "unresolved")

C16_BaseOnlyWorkflowPassed ==
    /\ all_node_types # {}
    /\ all_node_types \subseteq BASE_COMFY_NODES
    /\ pc = "download_weights"

\* Every path a weight of the manifest may be stored at.
DestinationPaths(canonical) ==
    LET dest_info == weights_map[canonical]
    IN  IF dest_info.list
        THEN { dest_info.items[i].dest \o "/" \o canonical : i \in DOMAIN dest_info.items }
        ELSE { dest_info.dest \o "/" \o canonical }

\* C17: for a weight whose canonical name is in the manifest,
\* validate_weights_exist never puts the canonical name on the missing list
\* when the file exists at any one of its destinations; it puts it there
\* only when none of the destinations has the file.
C17_ExistingAtAnyDestinationNotMissing ==
    (call.fn = "validate_weights_exist" /\ ret.done /\ ~ret.value.raised) =>
        \A canonical \in DOMAIN weights_map :
            canonical \in ret.value.missing_weights =>
                DestinationPaths(canonical) \cap call.disk = {}

C17_FoundAtSecondDestination ==
    /\ call.fn = "validate_weights_exist" /\ ret.done /\ ~ret.value.raised
    /\ ~call.skip_check
    /\ call.workflow = WfShared
    /\ call.disk = { "ComfyUI/models/vae_approx/" \o SharedWeight }
    /\ ret.value.missing_weights = { ManifestWeight }

\* The classes of the workflows that are missing whatever the registry
\* provides and that the class map sends to a repository.
MissingClassesOf(repo_url) ==
    { n \in (all_node_types \ BASE_COMFY_NODES) \ AvailablePool :
        n \in DOMAIN class_repo_map /\ class_repo_map[n] = repo_url }

SharedUrls == { r \in Repos : Cardinality(MissingClassesOf(r)) >= 2 }

\* C18: repository installs are deduplicated by URL: when several missing
\* classes map to the same repository URL, install_custom_nodes performs
\* exactly one clone task for that URL in the run.
C18_ExactlyOneCloneTaskPerSharedUrl ==
    /\ \A r \in SharedUrls : clone_calls[r] <= 1
    /\ pc = "download_weights" => \A r \in SharedUrls : clone_calls[r] = 1

\* C18, amended: a URL several missing classes map to gets at most one clone
\* task in a run, and when install_custom_nodes returns it has had exactly
\* one unless the ledger read at the start of the run lists it, in which
\* case it has had none.
C18_OneCloneTaskUnlessInLedger ==
    /\ \A r \in Repos : clone_calls[r] <= 1
    /\ pc = "download_weights" =>
           \A r \in SharedUrls :
               clone_calls[r] = IF r \in ledger0.installed_repos THEN 0 ELSE 1

C18_SharedUrlClonedOnce ==
    /\ pc = "download_weights"
    /\ Cardinality(MissingClassesOf(RepoA)) = 2
    /\ clone_calls[RepoA] = 1
    /\ <<"clone", RepoA>> \in events

\* The UI nodes of a graph that are well formed: dicts whose type, when
\* present, is a string and whose widgets_values, when present, is a list.
WellFormedUiNodes(workflow) ==
    LET ns == UiNodeList(workflow)
    IN  { i \in DOMAIN ns :
            /\ IsDict(ns[i])
            /\ HasKey(ns[i], "type") => IsStr(ns[i].v["type"])
            /\ HasKey(ns[i], "widgets_values") => ns[i].v["widgets_values"].t = "list" }

\* The references of one node: what the analyzer returns for the graph of
\* that node alone.
ReferencesOfUiNode(workflow, i) ==
    extract_weights_from_workflow(Dict(("nodes" :> List(<< UiNodeList(workflow)[i] >>))))

\* C19: the analyzer never raises on a malformed graph, and a parse error in
\* one node does not lose the others: extract_weights_from_workflow returns
\* the references of every well-formed node of the graph even when another
\* node is malformed (a UI node whose type is no string or whose
\* widgets_values is no list).
C19_MalformedNodeLosesNoOther ==
    (call.fn = "extract_weights_from_workflow" /\ ret.done /\ IsDict(call.workflow)
     /\ ApiInputNodes(call.workflow) = {}) =>
        \A i \in WellFormedUiNodes(call.workflow) :
            ReferencesOfUiNode(call.workflow, i) \subseteq ret.value

\* C20: artifacts are installed one at a time in a deterministic sorted
\* order: the clones of a run follow the sorted order of the repository
\* URLs and its downloads the sorted order of the weight names, so that two
\* runs on the same required set proceed in the same order. At every moment
\* each item already visited sorts before each item still to be visited.
C20_SortedInstallOrder ==
    /\ \A visited \in repos_to_install \ todo_repos :
           \A pending \in todo_repos : StrLess(visited, pending)
    /\ pc = "weight_loop" =>
           LET pending_weights == { todo_weights[i] : i \in DOMAIN todo_weights }
           IN  \A visited \in all_weights \ pending_weights :
                   \A pending \in pending_weights : StrLess(visited, pending)

\* C21: the ledger update for one item is atomic: when two installer runs
\* execute concurrently against the same progress file, no entry that
\* either of them persisted is lost; after both have finished their items
\* the file contains the entries written by both.
C21_NoLostLedgerUpdate ==
    (\A p \in Procs : conc.procs[p].pc = "done") =>
        \A p \in Procs :
            conc.procs[p].saved \subseteq
                (load_progress(conc.file).installed_repos
                 \cup load_progress(conc.file).downloaded_weights)

\* C22: an interrupt at any point of a run, also while save_progress is
\* writing, gives a non-zero exit and leaves a ledger that load_progress
\* reads as containing every entry persisted before the interrupt: the
\* entries the run found in the ledger when it started are still read from it.
C22_InterruptKeepsLedger ==
    (failure = "interrupted" /\ ~cleared) =>
        /\ exit_code = 1
        /\ ledger0.installed_repos \subseteq Persisted.installed_repos
        /\ ledger0.downloaded_weights \subseteq Persisted.downloaded_weights

\* The string values under the name keys of the recognized loader nodes of
\* a workflow that end in a supported weight extension.
LoaderNames(workflow) ==
    { name \in { "flux1-dev.safetensors", "clip_l.safetensors", "clip_g.safetensors",
                 "ae.safetensors", "my_lora.safetensors", "other.ckpt", "style.gguf",
                 "unused.pt", "g.bin", "ignored.safetensors", "model.sft", "",
                 "nonexistent-model.safetensors", SharedWeight, ManifestWeight,
                 CatalogWeight, UrlWeight } :
        /\ \E ext \in { ".safetensors", ".ckpt", ".pt", ".pth", ".bin", ".onnx" } :
               EndsWith(name, ext)
        /\ \E id \in DOMAIN workflow.v :
             \E key \in LoaderKeys(ClassTypeOf(workflow.v[id])) :
                 /\ HasKey(InputsOf(workflow.v[id]), key)
                 /\ InputsOf(workflow.v[id]).v[key] = Str(name) }

\* C23: extract_required_weights returns exactly the name inputs of the
\* recognized loader nodes that end in a supported weight extension, each
\* once, and nothing else; the empty workflow yields the empty list.
C23_RequiredWeightsExact ==
    (ret.done /\ call.fn = "extract_required_weights") =>
        /\ ~ret.value.raised
        /\ ret.value.weights = LoaderNames(call.workflow)
        /\ call.workflow = EmptyDict => ret.value.weights = {}

\* The add_node calls made on the builder, in order.
AddedNodes == SelectSeq(builder.calls, LAMBDA c : c.id # "")

\* C24: after any sequence of add_node and connect_nodes calls with dict
\* inputs, every added node has a distinct id, no earlier node is overwritten
\* or removed, and validate_structure(get_workflow()) is (True, None); a
\* connect_nodes whose destination id no node has changes nothing.
C24_BuilderKeepsNodesValid ==
    /\ [](builder.node_counter > 0 =>
            /\ \A i, j \in 1..Len(AddedNodes) :
                   i # j => AddedNodes[i].id # AddedNodes[j].id
            /\ \A i \in 1..Len(AddedNodes) :
                   /\ AddedNodes[i].id \in DOMAIN builder.workflow
                   /\ builder.workflow[AddedNodes[i].id].class_type = AddedNodes[i].class_type
            /\ validate_structure(get_workflow) = <<TRUE, "None">>)
    /\ [][(builder'.last.op = "connect_nodes"
              /\ builder'.last.to_node \notin DOMAIN builder.workflow) =>
            /\ builder'.workflow = builder.workflow
            /\ builder'.objects = builder.objects
            /\ builder'.node_counter = builder.node_counter]_vars

\* Two nodes were added, the second with the dict object of the first, and
\* a connection to one of them was made.
C24_ThreeNodesOneConnected ==
    /\ builder.node_counter > 0
    /\ Len(AddedNodes) = 2
    /\ builder.last.op = "connect_nodes"
    /\ builder.last.to_node \in DOMAIN builder.workflow
    /\ builder.workflow["1"].inputs = builder.workflow["2"].inputs
    /\ HasKey(builder.objects[1], "model")

\* The workflows of the command line that parse.
ParsedOf(workflows) == { workflows[i].workflow : i \in { j \in DOMAIN workflows : workflows[j].ok } }

\* The repositories and the weights the workflows that parse need installed.
NeededRepos ==
    { class_repo_map[n] :
        n \in { c \in UNION { extract_nodes_from_workflow(w) : w \in ParsedOf(batch) } :
                  /\ c \notin BASE_COMFY_NODES \cup AvailablePool
                  /\ c \in DOMAIN class_repo_map
                  /\ class_repo_map[c] # ComfyUpstream } }

NeededWeights == UNION { extract_weights_from_workflow(w) : w \in ParsedOf(batch) }

\* C25: a parse error in one workflow of a batch aborts only that workflow:
\* the run goes on to the install phase with the classes and weights of
\* every other workflow collected, and a run that ends with status 0 has
\* installed them.
C25_ParseErrorSkipsOneWorkflow ==
    /\ [][(pc = "main" /\ pc' \notin { "main", "killed" } /\ failure' # "interrupted") =>
            IF batch = <<>>
            THEN pc' = "exited"
            ELSE /\ pc' = "install_custom_nodes"
                 /\ all_node_types' =
                      UNION { extract_nodes_from_workflow(w) : w \in ParsedOf(batch) }
                 /\ all_weights' = NeededWeights]_vars
    /\ []((pc = "exited" /\ exit_code = 0 /\ runs = 1) =>
            /\ \A r \in NeededRepos : RepoInstalled(r)
            /\ \A w \in NeededWeights : WeightInstalled(w))

\* The run whose first argument does not parse has ended with status 0 and
\* the repository and the weight of its second argument installed.
C25_SecondWorkflowInstalled ==
    /\ batch = <<Unparseable, Parsed(WfCore)>>
    /\ pc = "exited"
    /\ exit_code = 0
    /\ runs = 1
    /\ RepoInstalled(RepoA)
    /\ WeightInstalled(CatalogWeight)

\* Keyword group g has a keyword that occurs in the lower-cased filename or
\* in the lower-cased URL.
KeywordOf(g, filename, url) ==
    \E k \in 1..Len(ModelTypePatterns[g][2]) :
        \/ Contains(Lower(filename), ModelTypePatterns[g][2][k])
        \/ Contains(Lower(url), ModelTypePatterns[g][2][k])

\* C26: detect_model_type returns the first keyword group, in declaration
\* order, one of whose keywords occurs in the lower-cased filename and URL:
\* when several groups match the earlier declared one wins, and when none
\* matches the result is checkpoints.
C26_FirstDeclaredGroupWins ==
    (ret.done /\ call.fn = "detect_model_type") =>
        IF \E g \in 1..Len(ModelTypePatterns) : KeywordOf(g, call.filename, call.url)
        THEN \E g \in 1..Len(ModelTypePatterns) :
                /\ ret.value = ModelTypePatterns[g][1]
                /\ KeywordOf(g, call.filename, call.url)
                /\ \A h \in 1..(g - 1) : ~KeywordOf(h, call.filename, call.url)
        ELSE ret.value = "checkpoints"

\* A LoRA file from a Hugging Face URL matches the groups diffusers and
\* loras, and diffusers, declared first, was returned.
C26_TwoGroupsMatched ==
    /\ ret.done
    /\ call.fn = "detect_model_type"
    /\ call.filename = "my_lora_v2.safetensors"
    /\ KeywordOf(3, call.filename, call.url)
    /\ KeywordOf(4, call.filename, call.url)
    /\ ret.value = "diffusers"

\* The mapped repository URLs that are the engine's upstream URL, with or
\* without trailing slashes.
UpstreamUrls ==
    { r \in Repos : \E base \in { "https://github.com/comfyanonymous/ComfyUI",
                                  "https://github.com/Comfy-Org/ComfyUI" } :
                        r \in { base, base \o "/", base \o "//" } }

UpstreamClasses == { c \in DOMAIN class_repo_map : class_repo_map[c] \in UpstreamUrls }

\* C27: a missing class whose mapped repository URL normalizes to the
\* engine's upstream URL is never installed: no clone is attempted for it,
\* it is not added to installed_repos, and it is not reported as unresolved.
C27_UpstreamNeverInstalled ==
    \A r \in UpstreamUrls :
        /\ r \notin Touched
        /\ r \notin repos_to_install
        /\ dirs[RepoDest(r)] = "absent"
        /\ r \notin progress.installed_repos
        /\ r \notin Persisted.installed_repos
        /\ \A i \in 1..Len(unresolved) : unresolved[i] \notin UpstreamClasses

\* A run whose workflow uses a class mapped to the upstream URL and a class
\* of repo-a has cloned repo-a and ended with status 0.
C27_UpstreamClassPassedOver ==
    /\ UpstreamClasses \cap all_node_types # {}
    /\ RepoInstalled(RepoA)
    /\ pc = "exited"
    /\ exit_code = 0

\* The repositories this run has recorded as installed.
RecordedByRun == progress.installed_repos \ ledger0.installed_repos

\* C28: when the revision map pins a repository to a revision other than
\* main, the run that records the repository as installed has checked it out
\* at that revision after its clone; a repository without a pin is cloned at
\* main and no checkout step runs for it.
C28_PinnedRevisionCheckedOut ==
    \A r \in Repos :
        IF r \in DOMAIN repo_commit_map /\ repo_commit_map[r] # "main"
        THEN r \in RecordedByRun =>
                 /\ <<"clone", r>> \in events
                 /\ <<"checkout " \o repo_commit_map[r], r>> \in events
        ELSE \A c \in { "main" } \cup { repo_commit_map[p] : p \in DOMAIN repo_commit_map } :
                 <<"checkout " \o c, r>> \notin events

\* C29: the dependency-file install of a repository is best-effort: when it
\* fails the repository stays in installed_repos, save_progress goes on to
\* persist it, and the run continues; no non-zero exit is caused by it.
C29_RequirementsBestEffort ==
    /\ [](failure # "requirements")
    /\ [](\A r \in Repos :
            <<"requirements_failed", r>> \in events => r \in progress.installed_repos)
    /\ [][(pc = "pip_install" /\ <<"requirements_failed", cur>> \in events') =>
            pc' = "saving_repo"]_vars
    /\ [][(pc = "saving_repo" /\ <<"requirements_failed", cur>> \in events
              /\ pc' \notin { "killed", "saving_repo" } /\ failure' # "interrupted") =>
            /\ pc' = "repo_loop"
            /\ cur \in load_progress(progress_file').installed_repos]_vars

\* The requirements of repo-a failed to install, and the run went on to end
\* with status 0 and repo-a installed.
C29_FailedRequirementsRunSucceeded ==
    /\ <<"requirements_failed", RepoA>> \in events
    /\ RepoInstalled(RepoA)
    /\ pc = "exited"
    /\ exit_code = 0

\* A lookup has returned.
LookupReturned == manager.pc = "idle" /\ manager.lookups > 0

\* The lookup found a list in the cache, stored less than 3600 seconds
\* before it, counted from the given time.
WithinTtlOf(since) ==
    manager.before.models_cache.set /\ manager.current_time - since < 3600

\* The lookup issued between one and three requests, and one that failed
\* three times returned [] and left the cache and its timestamp as found.
FetchedWithRetries ==
    /\ manager.requests \in 1..3
    /\ manager.returned \in { "fetched", "failed" }
    /\ manager.returned = "failed" =>
           /\ manager.requests = 3
           /\ manager.value = <<>>
           /\ manager.models_cache = manager.before.models_cache
           /\ manager.cache_time = manager.before.cache_time

\* The lookup returned the cached list without a request.
ServedFromCache ==
    /\ manager.requests = 0
    /\ manager.returned = "cached"
    /\ manager.value = manager.before.models_cache.models
    /\ manager.models_cache = manager.before.models_cache

\* C30: the catalog is cached with a time-to-live: a lookup made less than
\* 3600 seconds after the last successful fetch returns the cached list and
\* issues no HTTP request; a lookup after expiry or before any successful
\* fetch issues a fetch of at most 3 attempts, and a fetch that fails all 3
\* returns an empty list and leaves the cached value and its timestamp
\* unchanged. The time of the fetch is the time its response arrived.
C30_TtlFromFetch ==
    LookupReturned =>
        IF WithinTtlOf(manager.before.fetched_at) THEN ServedFromCache ELSE FetchedWithRetries

\* C30 as amended: the 3600 seconds count from the stored timestamp, which is
\* the clock as read at the start of the lookup whose fetch succeeded.
C30_TtlFromLookupStart ==
    /\ manager.pc # "none" => manager.requests <= 3
    /\ LookupReturned =>
           IF WithinTtlOf(manager.before.cache_time) THEN ServedFromCache ELSE FetchedWithRetries

\* A list was fetched, and the third lookup, made after its expiry, failed
\* three times and left it in the cache.
C30_ServedThenExpiredAndFailed ==
    /\ manager.pc = "idle"
    /\ manager.lookups = 3
    /\ manager.returned = "failed"
    /\ manager.models_cache = Cached(<<"v1">>)
    /\ manager.current_time - manager.cache_time >= 3600

\* The entries of the model list of the call whose filename is the
\* requested name, and the ones whose filename, '' when it is missing,
\* contains it or is contained in it, both lower-cased.
ExactEntries ==
    { i \in 1..Len(call.models) :
        "filename" \in DOMAIN call.models[i] /\ call.models[i].filename = call.filename }

SubstringEntries ==
    { i \in 1..Len(call.models) :
        LET name == IF "filename" \in DOMAIN call.models[i]
                    THEN Lower(call.models[i].filename) ELSE ""
        IN  Contains(name, Lower(call.filename)) \/ Contains(Lower(call.filename), name) }

\* C31: the catalog lookup is exact, then substring fallback: when an entry
\* has the requested filename an exactly matching entry is returned, also
\* when an earlier entry matches by substring; a substring match is returned
\* only when no entry matches exactly, and None when nothing matches.
C31_ExactBeforeSubstring ==
    (ret.done /\ call.fn = "find_model_in_comfyui_manager") =>
        IF ExactEntries # {} THEN ret.value \in ExactEntries
        ELSE IF SubstringEntries # {} THEN ret.value \in SubstringEntries
        ELSE ret.value = 0

\* The list has an entry that contains the name and after it the entry of
\* that name, and the second was returned.
C31_LaterExactEntryReturned ==
    /\ ret.done
    /\ call.fn = "find_model_in_comfyui_manager"
    /\ 1 \in SubstringEntries \ ExactEntries
    /\ ExactEntries = { 2 }
    /\ ret.value = 2

\* C36: the entry find_model_in_comfyui_manager returns has a non-empty
\* filename that equals, contains or is contained in the requested name: an
\* entry with a missing or empty filename is never returned as the match.
C36_MatchHasFilename ==
    (ret.done /\ call.fn = "find_model_in_comfyui_manager" /\ ret.value # 0) =>
        LET model == call.models[ret.value]
        IN  /\ "filename" \in DOMAIN model
            /\ model.filename # ""
            /\ \/ Contains(Lower(model.filename), Lower(call.filename))
               \/ Contains(Lower(call.filename), Lower(model.filename))

\* A value that is a URL, a data URI, path-qualified, or that ends with a
\* non-model extension.
NoArtifactValue(value) ==
    \/ \E prefix \in { "http://", "https://", "data:", "/", "./", "../" } :
           StartsWith(Lower(value), prefix)
    \/ \E ext \in { ".mp4", ".mov", ".avi", ".mkv", ".webm", ".jpg", ".jpeg", ".png", ".webp",
                    ".gif", ".wav", ".mp3", ".flac", ".m4a", ".txt", ".json", ".csv" } :
           EndsWith(Lower(value), ext)

\* C32: the analyzer of the installer excludes from the artifact set every
\* input value that is a URL, a data URI, path-qualified, or ends with a
\* known non-model extension, even under a recognized model-input key.
C32_NoUrlDataUriPathReturned ==
    (call.fn = "extract_weights_from_workflow" /\ ret.done) =>
        \A value \in ret.value : ~NoArtifactValue(value)

\* The string inputs of the API-form nodes of a workflow under the keys that
\* are recognized model-input keys.
ValuesUnderModelKeys(workflow) ==
    { workflow.v[id].v["inputs"].v[key].v :
        <<id, key>> \in { p \in (DOMAIN workflow.v) \X
                                  { "ckpt_name", "vae_name", "lora_name", "model_name",
                                    "clip_name", "embedding_name", "upscale_model_name",
                                    "diffusers_name", "embeddings", "taesd_name",
                                    "conditioning_method", "preview_method", "model",
                                    "filename" } :
                            /\ IsDict(workflow.v[p[1]])
                            /\ HasKey(workflow.v[p[1]], "inputs")
                            /\ IsDict(workflow.v[p[1]].v["inputs"])
                            /\ HasKey(workflow.v[p[1]].v["inputs"], p[2])
                            /\ IsStr(workflow.v[p[1]].v["inputs"].v[p[2]]) } }

\* C33: the analyzer returns an input value as an artifact reference only
\* when its key is one of the recognized model-input keys: a string under
\* another key that merely contains a recognized key (filename_prefix =
\* "ComfyUI" of SaveImage) is never returned as a weight.
C33_OnlyRecognizedKeys ==
    (call.fn = "extract_weights_from_workflow" /\ ret.done /\ IsDict(call.workflow)
     /\ ApiInputNodes(call.workflow) # {}) =>
        ret.value \subseteq ValuesUnderModelKeys(call.workflow)

\* C34: saving progress for weights never drops repository entries: every
\* repository URL persisted earlier in the run, or by the interrupted
\* previous run, is still in the progress file after each later save made by
\* download_weights, and the persisted sets only grow until clear_progress.
C34_WeightSaveKeepsRepos ==
    /\ (pc = "weight_loop" /\ cur \in progress.downloaded_weights) =>
           /\ persisted.installed_repos \subseteq Persisted.installed_repos
           /\ persisted.downloaded_weights \subseteq Persisted.downloaded_weights
    /\ pc = "saving_weight" =>
           /\ persisted.installed_repos \subseteq progress.installed_repos
           /\ persisted.downloaded_weights \subseteq progress.downloaded_weights

C37_AnalyzersAgree ==
    /\ (ret.done /\ call.fn = "extract_weights_from_workflow") =>
           ret.value = preload_extract_weights_from_workflow(call.workflow)
    /\ (ret.done /\ call.fn = "preload.extract_weights_from_workflow") =>
           ret.value = extract_weights_from_workflow(call.workflow)

\* C38: preload_all_workflows returns a status other than 0 whenever at
\* least one workflow failed to load or parse, whether or not the other
\* workflows reference any weight.
C38_FailedWorkflowFailsBuild ==
    (pre.pc = "returned" /\ pre.failed_workflows # {}) => pre.result \notin { 0, NoExit }

\* C39: every installer run terminates: a process that is running reaches
\* its exit (or is killed).
C39_EveryRunTerminates == Running ~> ~Running

====
